---- MODULE Spec2Model ----
(***************************************************************************)
(* Ownership model of cidre's Core Foundation bindings: cf::Type,          *)
(* define_cf_type!, arc::R and cm::SampleBuf.                              *)
(*                                                                         *)
(* The foreign runtime is a heap of reference-counted objects.  Address 0  *)
(* is the null address.  A foreign call applied to the null address or to  *)
(* a deallocated object is undefined behaviour: the object is marked       *)
(* "corrupt" and the run stops there, since nothing can be said about what *)
(* follows.                                                                *)
(*                                                                         *)
(* Specifications, all over the same variables:                            *)
(*   Spec           ownership: creation, retain, move, drop, narrowing     *)
(*   SpecContainer  the block of tests::it_works and its caller            *)
(*   SpecStatus     the fallible wrappers of cm::SampleBuf, invalidation   *)
(*   SpecAudio      audio_stream_packet_descs and audio_buf_list_n         *)
(*   SpecAccess     the borrowing queries and optional accessors           *)
(*   SpecAttach     sample attachments and is_key_frame                    *)
(*   SpecThreads    threads retaining and releasing one sample buffer      *)
(*   SpecBufList    the audio buffer lists and the block buffer they own   *)
(*   SpecSubtype    a define_cf_type! subtype beside the base cf::Type     *)
(*   SpecTagged     is_tagged_ptr over 64-bit addresses                    *)
(*   SpecErr        the named error codes of cm::sample_buffer::err        *)
(*   SpecKeyFrame   is_key_frame and contains_not_sync                     *)
(*   SpecCall       retained() through arc::Retain, frame by frame;        *)
(*   SpecCallFair   the same with the calling thread kept running          *)
(*   SpecTap        the constructors of ca::TapDesc                        *)
(***************************************************************************)
EXTENDS Integers, Sequences, FiniteSets

\* ---------------------------------------------------------------- bounds
NObj == 2
NRef == 2
NThreads == 2
MaxPackets == 1
MaxBufs == 1
MaxRetains == 3
MaxDepth == 4

Objs == 1..NObj
Addrs == 0..NObj
Refs == 1..NRef
Threads == 1..NThreads

\* ------------------------------------------------ foreign runtime values
Number_type_id == "number"
String_type_id == "string"
Array_type_id == "array"
SampleBuf_type_id == "sbuf"
BlockBuf_type_id == "blockbuf"
TapDesc_type_id == "tapdesc"

\* kCMSampleBufferError_AllocationFailed, kCMSampleBufferError_BufferNotReady
ALLOC_FAILED == -12730
BUFFER_NOT_READY == -12733
\* cm::sample_buffer::err
ALREADY_HAS_DATA_BUFFER == -12732
SAMPLE_INDEX_OUT_OF_RANGE == -12734
ARRAY_TOO_SMALL == -12737
INVALID_MEDIA_TYPE_FOR_OPERATION == -12741
INVALIDATED == -12744
REQUIRED_PARAMETER_MISSING == -12731
BUFFER_HAS_NO_SAMPLE_SIZES == -12735
BUFFER_HAS_NO_SAMPLE_TIMING_INFO == -12736
INVALID_ENTRY_COUNT == -12738
CANNOT_SUBDIVIDE == -12739
SAMPLE_TIMING_INFO_INVALID == -12740
INVALID_SAMPLE_DATA == -12742
INVALID_MEDIA_FORMAT == -12743
DATA_FAILED == -16750
DATA_CANCELED == -16751
noErr == 0
CreateStatuses == {noErr, ALLOC_FAILED}

\* The named constants of cm::sample_buffer::err
ErrTable ==
    [ALLOC_FAILED |-> ALLOC_FAILED,
     REQUIRED_PARAMETER_MISSING |-> REQUIRED_PARAMETER_MISSING,
     ALREADY_HAS_DATA_BUFFER |-> ALREADY_HAS_DATA_BUFFER,
     BUFFER_NOT_READY |-> BUFFER_NOT_READY,
     SAMPLE_INDEX_OUT_OF_RANGE |-> SAMPLE_INDEX_OUT_OF_RANGE,
     BUFFER_HAS_NO_SAMPLE_SIZES |-> BUFFER_HAS_NO_SAMPLE_SIZES,
     BUFFER_HAS_NO_SAMPLE_TIMING_INFO |-> BUFFER_HAS_NO_SAMPLE_TIMING_INFO,
     ARRAY_TOO_SMALL |-> ARRAY_TOO_SMALL,
     INVALID_ENTRY_COUNT |-> INVALID_ENTRY_COUNT,
     CANNOT_SUBDIVIDE |-> CANNOT_SUBDIVIDE,
     SAMPLE_TIMING_INFO_INVALID |-> SAMPLE_TIMING_INFO_INVALID,
     INVALID_MEDIA_TYPE_FOR_OPERATION |-> INVALID_MEDIA_TYPE_FOR_OPERATION,
     INVALID_SAMPLE_DATA |-> INVALID_SAMPLE_DATA,
     INVALID_MEDIA_FORMAT |-> INVALID_MEDIA_FORMAT,
     INVALIDATED |-> INVALIDATED,
     DATA_FAILED |-> DATA_FAILED,
     DATA_CANCELED |-> DATA_CANCELED]
ErrNames == DOMAIN ErrTable

\* A table in which two names stand for the same code
err_code_shared(name) ==
    IF name = "DATA_CANCELED" THEN ErrTable["DATA_FAILED"] ELSE ErrTable[name]

\* cm::sample_buf_err::<name>
err_code(name) == ErrTable[name]

\* The codes that have a name
ErrCodes == {err_code(n) : n \in ErrNames}

\* Option<T> is a sequence of length at most one
None == <<>>
Some(x) == <<x>>

VARIABLES heap, refs, pc, last, mon, fcalls, outer, list, thr, sub, stack, addr, call

\* The caller's variable, the caller's audio buffer list, the worker threads,
\* the run of the same program on the base type, the call stack, the 64-bit
\* addresses of the objects, and the constructor call of the last step
aux == <<outer, list, thr, sub, stack, addr, call>>
vars == <<heap, refs, pc, last, mon, fcalls, aux>>

\* ------------------------------------------------------- foreign objects
\*   state  "free" (not allocated), "live", "dead" (deallocated), "null",
\*          "corrupt" (a call was applied to it while it was not live)
\*   rc     the reference count
\*   nret, nrel  the CFRetain and CFRelease calls it has received
\*   tag    its type id
\*   ready, image  sample buffers: data readiness, has an image buffer
\*   elems  containers: the elements it holds a count on
\*   media  sample buffers: "none" (no format description), "video",
\*          "audio_cbr", "audio_vbr"
\*   valid  sample buffers: not invalidated
\*   dbuf   sample buffers: has a data buffer
\*   npkt   sample buffers: the number of audio packet descriptions
\*   att    sample buffers: the sample attachments array, None while it
\*          does not exist, else Some(sequence of dictionaries, one per
\*          sample); a dictionary is a set of <<key, value>> pairs
\*   inits  Objective-C objects: the init messages the object has received
Obj(state, rc, tag, ready, image, elems) ==
    [state |-> state, rc |-> rc, nret |-> 0, nrel |-> 0, tag |-> tag,
     ready |-> ready, image |-> image, elems |-> elems,
     media |-> IF image THEN "video" ELSE "none", valid |-> TRUE,
     dbuf |-> FALSE, npkt |-> 0, att |-> None, inits |-> <<>>]
NullObj == Obj("null", 0, "none", FALSE, FALSE, {})
FreeObj == Obj("free", 0, "none", FALSE, FALSE, {})

IsLive(h, o) == h[o].state = "live"
UB(h) == \E a \in Addrs : h[a].state = "corrupt"
Corrupt(h, a) == [h EXCEPT ![a].state = "corrupt"]

HasFree(h) == \E o \in Objs : h[o].state = "free"
FreshObj(h) == CHOOSE o \in Objs : h[o].state = "free"
                                   /\ \A p \in Objs : h[p].state = "free" => o <= p

\* CFRetain: one more count on a live object
CFRetain(h, o) ==
    IF IsLive(h, o) THEN [h EXCEPT ![o].rc = @ + 1, ![o].nret = @ + 1]
    ELSE Corrupt(h, o)

\* One count less on each of the objects of S (the elements a deallocated
\* container gives up); elements are never containers themselves.
RECURSIVE ReleaseAll(_, _)
ReleaseAll(h, S) ==
    IF S = {} THEN h
    ELSE LET e == CHOOSE x \in S : TRUE
             h1 == IF ~IsLive(h, e) THEN Corrupt(h, e)
                   ELSE IF h[e].rc = 1
                        THEN [h EXCEPT ![e].rc = 0, ![e].state = "dead"]
                        ELSE [h EXCEPT ![e].rc = @ - 1]
         IN  ReleaseAll(h1, S \ {e})

\* CFRelease: one count less; the object is deallocated when the count
\* reaches zero, and a deallocated container releases its elements.
CFRelease(h, o) ==
    IF ~IsLive(h, o) THEN Corrupt(h, o)
    ELSE IF h[o].rc = 1
         THEN ReleaseAll([h EXCEPT ![o].rc = 0, ![o].nrel = @ + 1, ![o].state = "dead"],
                         h[o].elems)
         ELSE [h EXCEPT ![o].rc = @ - 1, ![o].nrel = @ + 1]

CFGetTypeID(h, o) == h[o].tag

\* CFShow: reads the object and, for a container, each of its elements
CFShow(h, o) ==
    IF ~IsLive(h, o) THEN Corrupt(h, o)
    ELSE IF \E e \in h[o].elems : ~IsLive(h, e)
         THEN Corrupt(h, CHOOSE e \in h[o].elems : ~IsLive(h, e))
         ELSE h

\* ----------------------------------------------------------- cf::Type
\* The transmute without the CFRetain: a handle copied as if it were owned
Type_retain_no_CFRetain(h, o) == h

Type_retain(h, o) == CFRetain(h, o)

\* A release that gives up two counts
Type_release_twice(h, o) == CFRelease(CFRelease(h, o), o)

Type_release(h, o) == CFRelease(h, o)

get_type_id(h, o) == CFGetTypeID(h, o)

\* self as *const Type: the address of the object
as_type_ptr(o) == o

\* Option<&T> returned by a foreign function: the null address is None
OptionRef(a) == IF a = 0 THEN None ELSE Some(a)

\* A retained that retains through both the trait and the inherent method
retained_twice(h, o) == Type_retain(Type_retain(h, o), o)

\* impl arc::Retain for Type / define_cf_type!: retained
retained(h, o) == Type_retain(h, o)

\* A Release impl that does not forward to the base type
release_forgets(h, o) == h

\* impl arc::Release for Type / define_cf_type!: release
release(h, o) == Type_release(h, o)

\* arc::R<T>: Drop releases the object once
R_drop(h, o) == release(h, o)



\* usize on the targets of is_tagged_ptr: 64 bits, bit 0 the least significant
UsizeBits == 64
\* a >> n on a usize: the bits below n fall off, the others move down
ShiftRight(a, n) == {b - n : b \in {x \in a : x >= n /\ x < UsizeBits}}
\* The usize 1
One == {0}

\* An is_tagged_ptr that looks one bit too low
is_tagged_ptr_bit62(a) == ShiftRight(a, 62) = One

\* is_tagged_ptr(&self): ((self as *const Self as usize) >> 63) == 1
is_tagged_ptr(a) == ShiftRight(a, 63) = One

\* ------------------------------------------------- define_cf_type! subtypes
\* A deref that yields a view of another object
deref_elsewhere(o) == NObj

\* impl Deref for $NewType: &self.0, the base view at the same address
deref(o) == o

\* define_cf_type!(AttachBearer(cf::Type)): release is self.0.release()
AttachBearer_release(h, o) == release(h, deref(o))

\* define_cf_type!(SampleBuf(cm::AttachBearer)): release is self.0.release()
SampleBuf_release(h, o) == AttachBearer_release(h, deref(o))

\* The inherent SampleBuf::retained: cf::Type::retain(self), self coerced to
\* the base view through AttachBearer
SampleBuf_retained(h, o) == Type_retain(h, deref(deref(o)))


\* The methods a type has in an impl of its own
Inherent(ty) ==
    IF ty = "SampleBuf" THEN {"retained"}
    ELSE IF ty = "Type" THEN {"retain", "release", "get_type_id", "as_type_ptr",
                               "as_type_ref", "is_tagged_ptr"}
    ELSE {}

\* A path that always names the method of the trait
ResolvePath_trait(ty, name) == <<ty, "trait", name>>

\* $NewType::retained in the body of the Retain impl: the path names the
\* method of the type's own impl when there is one, else the trait's
ResolvePath(ty, name) ==
    IF name \in Inherent(ty) THEN <<ty, "inherent", name>> ELSE <<ty, "trait", name>>

\* The function the body of fn calls, None for the one that calls CFRetain
Callee(fn) ==
    IF fn = <<"SampleBuf", "trait", "retained">> THEN Some(ResolvePath("SampleBuf", "retained"))
    ELSE IF fn = <<"SampleBuf", "inherent", "retained">> THEN Some(<<"Type", "inherent", "retain">>)
    ELSE None

\* The CFRetain and CFRelease calls that lead from the heap h to the heap h2
Rep(x, k) == [i \in 1..k |-> x]
CallsOn(h, h2, o) ==
    Rep(<<"CFRetain", o>>, h2[o].nret - h[o].nret)
        \o Rep(<<"CFRelease", o>>, h2[o].nrel - h[o].nrel)
RECURSIVE CallsFrom(_, _, _)
CallsFrom(h, h2, o) ==
    IF o > NObj THEN <<>> ELSE CallsOn(h, h2, o) \o CallsFrom(h, h2, o + 1)
ForeignCalls(h, h2) == CallsFrom(h, h2, 1)

\* ------------------------------------------------------------ os::Result
Ok == [ok |-> TRUE, err |-> 0]
Err(st) == [ok |-> FALSE, err |-> st]

\* os::Status::result
Status_result(st) == IF st = 0 THEN Ok ELSE Err(st)

\* A foreign call that returned the os::Status st
Call(fn, st) == [fn |-> fn, st |-> st]

\* --------------------------------------------------- CoreMedia (foreign)
NewSampleBuf(data_ready, image) ==
    Obj("live", 1, SampleBuf_type_id, data_ready, image, {})

\* CMSampleBufferCreate / CMSampleBufferCreateForImageBuffer: on success the
\* new buffer, holding one count, is written to the output parameter; on
\* failure the output parameter is left empty.
CMSampleBufferCreate(h, data_ready, image, st) ==
    IF st = noErr /\ HasFree(h)
    THEN LET o == FreshObj(h)
         IN  [h |-> [h EXCEPT ![o] = NewSampleBuf(data_ready, image)],
              out |-> Some(o), status |-> noErr]
    ELSE [h |-> h, out |-> None,
          status |-> IF st = noErr THEN ALLOC_FAILED ELSE st]

CMSampleBufferDataIsReady(h, o) == h[o].ready

CMSampleBufferSetDataReady(h, o) == [h EXCEPT ![o].ready = TRUE]

\* CMSampleBufferMakeDataReady: an invalidated buffer answers INVALIDATED; a
\* buffer that is ready stays ready and the call succeeds; otherwise the
\* client's callback decides.
CMSampleBufferMakeDataReady(h, o, st) ==
    IF ~h[o].valid THEN [h |-> h, status |-> INVALIDATED]
    ELSE IF h[o].ready THEN [h |-> h, status |-> noErr]
    ELSE IF st = noErr THEN [h |-> [h EXCEPT ![o].ready = TRUE], status |-> noErr]
    ELSE [h |-> h, status |-> st]

\* CMSampleBufferCreate with a data buffer and an audio format description:
\* constant-rate audio has no packet descriptions, variable-rate audio has n
CMSampleBufferCreateAudio(h, data_ready, n, st) ==
    IF st = noErr /\ HasFree(h)
    THEN LET o == FreshObj(h)
         IN  [h |-> [h EXCEPT ![o] = [NewSampleBuf(data_ready, FALSE) EXCEPT
                                         !.media = IF n = 0 THEN "audio_cbr"
                                                   ELSE "audio_vbr",
                                         !.npkt = n, !.dbuf = TRUE]],
              out |-> Some(o), status |-> noErr]
    ELSE [h |-> h, out |-> None,
          status |-> IF st = noErr THEN ALLOC_FAILED ELSE st]

IsAudio(h, o) == h[o].media \in {"audio_cbr", "audio_vbr"}

CMSampleBufferIsValid(h, o) == h[o].valid

\* CMSampleBufferInvalidate: a valid buffer becomes invalid unless the call
\* fails; an invalid buffer stays invalid whatever the call reports
CMSampleBufferInvalidate(h, o, st) ==
    IF h[o].valid /\ st = noErr THEN [h |-> [h EXCEPT ![o].valid = FALSE], status |-> noErr]
    ELSE [h |-> h, status |-> st]

\* CMSampleBufferSetDataBuffer: a buffer takes a data buffer once
CMSampleBufferSetDataBuffer(h, o) ==
    IF ~h[o].valid THEN [h |-> h, status |-> INVALIDATED]
    ELSE IF h[o].dbuf THEN [h |-> h, status |-> ALREADY_HAS_DATA_BUFFER]
    ELSE [h |-> [h EXCEPT ![o].dbuf = TRUE], status |-> noErr]

\* CMSampleBufferGetSampleTimingInfo: st is what the sample index leads to
CMSampleBufferGetSampleTimingInfo(h, o, st) ==
    IF ~h[o].valid THEN [status |-> INVALIDATED, out |-> None]
    ELSE IF st = noErr THEN [status |-> noErr, out |-> Some("timing")]
    ELSE [status |-> st, out |-> None]

\* CMSampleBufferCopyPCMDataIntoAudioBufferList: st is what the frame range
\* and the size of the caller's list lead to
CMSampleBufferCopyPCMDataIntoAudioBufferList(h, o, st) ==
    IF ~h[o].valid THEN [status |-> INVALIDATED]
    ELSE IF ~IsAudio(h, o) THEN [status |-> INVALID_MEDIA_TYPE_FOR_OPERATION]
    ELSE IF ~h[o].ready THEN [status |-> BUFFER_NOT_READY]
    ELSE [status |-> st]

\* CMSampleBufferGetAudioStreamPacketDescriptionsPtr(sbuf, ptr_out, size_out):
\* ptr_out is the address of the caller's pointer variable, or 0.  The
\* number of descriptions (none for constant-rate audio) is reported through
\* size_out, and their address is stored where ptr_out points: stored is
\* what is written there, None when nothing is.
PacketDescsOf(o) == NObj + o
CMSampleBufferGetAudioStreamPacketDescriptionsPtr(h, o, ptr_out) ==
    IF ~h[o].valid THEN [status |-> INVALIDATED, stored |-> None, size |-> 0]
    ELSE IF ~IsAudio(h, o)
         THEN [status |-> INVALID_MEDIA_TYPE_FOR_OPERATION, stored |-> None, size |-> 0]
    ELSE LET vbr == h[o].media = "audio_vbr"
         IN  [status |-> noErr,
              stored |-> IF ptr_out = 0 THEN None
                         ELSE Some(IF vbr THEN PacketDescsOf(o) ELSE 0),
              size |-> h[o].npkt]

\* CMSampleBufferGetAudioBufferListWithRetainedBlockBuffer, the size query:
\* no list and no block buffer are passed, the size needed is reported
GetAudioBufferListSize(h, o, st, n) ==
    IF ~h[o].valid THEN [status |-> INVALIDATED, size |-> 0]
    ELSE IF ~IsAudio(h, o) THEN [status |-> INVALID_MEDIA_TYPE_FOR_OPERATION, size |-> 0]
    ELSE IF st # noErr THEN [status |-> st, size |-> 0]
    ELSE [status |-> noErr, size |-> n]

\* The same call with a list of list_size: the list is filled and a block
\* buffer holding one count is written to the output parameter
GetAudioBufferListFill(h, o, list_size, st) ==
    IF ~h[o].valid THEN [h |-> h, status |-> INVALIDATED, out |-> None]
    ELSE IF ~IsAudio(h, o)
         THEN [h |-> h, status |-> INVALID_MEDIA_TYPE_FOR_OPERATION, out |-> None]
    ELSE IF st # noErr THEN [h |-> h, status |-> st, out |-> None]
    ELSE IF list_size = 0 THEN [h |-> h, status |-> ARRAY_TOO_SMALL, out |-> None]
    ELSE IF ~HasFree(h) THEN [h |-> h, status |-> ALLOC_FAILED, out |-> None]
    ELSE LET b == FreshObj(h)
         IN  [h |-> [h EXCEPT ![b] = Obj("live", 1, BlockBuf_type_id, FALSE, FALSE, {})],
              status |-> noErr, out |-> Some(b)]

\* The objects a sample buffer refers to live outside the modelled heap, at
\* addresses of their own
ImageBufOf(o) == 2 * NObj + o
DataBufOf(o) == 3 * NObj + o
FormatDescOf(o) == 4 * NObj + o
AttachesOf(o) == 5 * NObj + o

CMSampleBufferGetImageBuffer(h, o) == IF h[o].image THEN ImageBufOf(o) ELSE 0
CMSampleBufferGetDataBuffer(h, o) == IF h[o].dbuf THEN DataBufOf(o) ELSE 0
CMSampleBufferGetFormatDescription(h, o) ==
    IF h[o].media # "none" THEN FormatDescOf(o) ELSE 0
\* A buffer made from an image buffer or from audio data has one sample
CMSampleBufferGetNumSamples(h, o) == IF h[o].media = "none" THEN 0 ELSE 1

\* CMSampleBufferGetSampleAttachmentsArray: the array if it exists; if not
\* and create_if_necessary, a new array of one empty dictionary per sample;
\* otherwise null
CMSampleBufferGetSampleAttachmentsArray(h, o, create_if_necessary) ==
    IF h[o].att # None THEN [h |-> h, out |-> AttachesOf(o)]
    ELSE IF create_if_necessary
         THEN [h |-> [h EXCEPT ![o].att =
                         Some([i \in 1..CMSampleBufferGetNumSamples(h, o) |-> {}])],
               out |-> AttachesOf(o)]
         ELSE [h |-> h, out |-> 0]

\* cf::Dictionary: a set of <<key, value>> pairs with one pair per key
Dict_get(d, k) ==
    IF \E p \in d : p[1] = k THEN Some((CHOOSE p \in d : p[1] = k)[2]) ELSE None
Dict_insert(d, k, v) == {p \in d : p[1] # k} \cup {<<k, v>>}

\* kCMSampleAttachmentKey_NotSync, kCMSampleAttachmentKey_DoNotDisplay
not_sync == "NotSync"
do_not_display == "DoNotDisplay"
\* cf::Boolean::value_false(), cf::Boolean::value_true(), cf::Number::tagged_i8(1)
value_false == "kCFBooleanFalse"
value_true == "kCFBooleanTrue"
tagged_i8_1 == "tagged_i8(1)"

\* ------------------------------------------------------- os::result_unchecked
\* let mut option = None; op(&mut option)?; Ok(option.unwrap_unchecked())
result_unchecked(c) ==
    IF ~c.res.ok
    THEN [h |-> IF c.out = None THEN c.h ELSE R_drop(c.h, c.out[1]),
          res |-> c.res, val |-> None, status |-> c.status]
    ELSE IF c.out = None
         THEN [h |-> Corrupt(c.h, 0), res |-> c.res, val |-> Some(0), status |-> c.status]
         ELSE [h |-> c.h, res |-> c.res, val |-> c.out, status |-> c.status]

\* ---------------------------------------------------------- cm::SampleBuf
\* A create_in that reports success whatever the foreign status
create_in_swallows_status(h, data_ready, st) ==
    LET c == CMSampleBufferCreate(h, data_ready, FALSE, st)
    IN  [h |-> c.h, out |-> c.out, res |-> Ok, status |-> c.status]

create_in(h, data_ready, st) ==
    LET c == CMSampleBufferCreate(h, data_ready, FALSE, st)
    IN  [h |-> c.h, out |-> c.out, res |-> Status_result(c.status), status |-> c.status]

\* A new that passes a constant instead of its data_ready argument
SampleBuf_new_always_ready(h, data_ready, st) ==
    result_unchecked(create_in(h, TRUE, st))

SampleBuf_new(h, data_ready, st) ==
    result_unchecked(create_in(h, data_ready, st))

with_image_buf(h, data_ready, st) ==
    LET c == CMSampleBufferCreate(h, data_ready, TRUE, st)
    IN  result_unchecked([h |-> c.h, out |-> c.out, res |-> Status_result(c.status),
                          status |-> c.status])

data_is_ready(h, o) == CMSampleBufferDataIsReady(h, o)

\* A set_data_ready that does not reach the foreign call
set_data_ready_noop(h, o) == h

set_data_ready(h, o) == CMSampleBufferSetDataReady(h, o)

make_data_ready(h, o, st) ==
    LET c == CMSampleBufferMakeDataReady(h, o, st)
    IN  [h |-> c.h, res |-> Status_result(c.status), status |-> c.status]

\* cm::SampleBuf::new(Some(&data_buf), data_ready, Some(&audio_format_desc))
SampleBuf_new_audio(h, data_ready, n, st) ==
    LET c == CMSampleBufferCreateAudio(h, data_ready, n, st)
    IN  result_unchecked([h |-> c.h, out |-> c.out, res |-> Status_result(c.status),
                          status |-> c.status])

\* An is_valid that answers without asking the foreign runtime
is_valid_constant(h, o) == TRUE

is_valid(h, o) == CMSampleBufferIsValid(h, o)

\* An image_buf that takes whatever address it is given for a reference
image_buf_unchecked(h, o) == Some(CMSampleBufferGetImageBuffer(h, o))

image_buf(h, o) == OptionRef(CMSampleBufferGetImageBuffer(h, o))

data_buf(h, o) == OptionRef(CMSampleBufferGetDataBuffer(h, o))

format_desc(h, o) == OptionRef(CMSampleBufferGetFormatDescription(h, o))

\* attaches / attaches_mut
attaches(h, o, create_if_necessary) ==
    LET c == CMSampleBufferGetSampleAttachmentsArray(h, o, create_if_necessary)
    IN  [h |-> c.h, val |-> OptionRef(c.out)]

\* An is_key_frame whose query creates the array when there is none
is_key_frame_attaches_creating(h, o) == attaches(h, o, TRUE)

\* The query of is_key_frame: self.attaches(false)
is_key_frame_attaches(h, o) == attaches(h, o, FALSE)

\* An is_key_frame that looks only at the presence of the key
is_key_frame_presence(h, o) ==
    LET a == is_key_frame_attaches(h, o)
    IN  IF a.val = None THEN TRUE
        ELSE LET arr == a.h[o].att[1]
             IN  IF Len(arr) = 0 THEN TRUE
                 ELSE Dict_get(arr[1], not_sync) = None

is_key_frame(h, o) ==
    LET a == is_key_frame_attaches(h, o)
    IN  IF a.val = None THEN TRUE
        ELSE LET arr == a.h[o].att[1]
             IN  IF Len(arr) = 0 THEN TRUE
                 ELSE LET v == Dict_get(arr[1], not_sync)
                      IN  IF v = None THEN TRUE
                          ELSE as_type_ptr(v[1]) = as_type_ptr(value_false)

\* contains_not_sync(&self): attaches(true).unwrap_unchecked(), then
\* arr[0].contains_key(not_sync); arr[0] of an array without elements reads
\* past its end
contains_not_sync(h, o) ==
    LET a == attaches(h, o, TRUE)
        arr == a.h[o].att[1]
    IN  IF Len(arr) = 0 THEN [h |-> Corrupt(a.h, 0), val |-> FALSE]
        ELSE [h |-> a.h, val |-> Dict_get(arr[1], not_sync) # None]

\* An invalidate that reports success whatever the foreign status
invalidate_swallows_status(h, o, st) ==
    LET c == CMSampleBufferInvalidate(h, o, st)
    IN  [h |-> c.h, res |-> Ok, status |-> c.status]

invalidate(h, o, st) ==
    LET c == CMSampleBufferInvalidate(h, o, st)
    IN  [h |-> c.h, res |-> Status_result(c.status), status |-> c.status]

set_data_buf(h, o) ==
    LET c == CMSampleBufferSetDataBuffer(h, o)
    IN  [h |-> c.h, res |-> Status_result(c.status), status |-> c.status]

\* os::result_init(|res| CMSampleBufferGetSampleTimingInfo(self, sample_index, res))
timing_info(h, o, st) ==
    LET c == CMSampleBufferGetSampleTimingInfo(h, o, st)
        res == Status_result(c.status)
    IN  [res |-> res, val |-> IF res.ok THEN c.out ELSE None, status |-> c.status]

copy_pcm_data_into_audio_buf_list(h, o, st) ==
    LET c == CMSampleBufferCopyPCMDataIntoAudioBufferList(h, o, st)
    IN  [res |-> Status_result(c.status), status |-> c.status]

\* An audio_stream_packet_descs that tests the pointer before the status
audio_stream_packet_descs_null_first(h, o) ==
    LET ptr == 0
        c == CMSampleBufferGetAudioStreamPacketDescriptionsPtr(h, o, ptr)
        res == Status_result(c.status)
    IN  IF ptr = 0 THEN [res |-> Ok, val |-> None, status |-> c.status, size |-> c.size]
        ELSE IF ~res.ok THEN [res |-> res, val |-> None, status |-> c.status, size |-> c.size]
        ELSE [res |-> Ok, val |-> Some([ptr |-> ptr, len |-> c.size]),
              status |-> c.status, size |-> c.size]

\* let ptr = null_mut(); let mut size = 0;
\* CMSampleBufferGetAudioStreamPacketDescriptionsPtr(self, ptr, &mut size).result()?;
\* if ptr.is_null() { return Ok(None); }  Ok(Some(slice(ptr, size)))
\* The value of ptr, the null address, is what is passed as ptr_out; the local
\* ptr is not written by the call.
audio_stream_packet_descs(h, o) ==
    LET ptr == 0
        c == CMSampleBufferGetAudioStreamPacketDescriptionsPtr(h, o, ptr)
        res == Status_result(c.status)
    IN  IF ~res.ok THEN [res |-> res, val |-> None, status |-> c.status, size |-> c.size]
        ELSE IF ptr = 0 THEN [res |-> Ok, val |-> None, status |-> c.status, size |-> c.size]
        ELSE [res |-> Ok, val |-> Some([ptr |-> ptr, len |-> c.size]),
              status |-> c.status, size |-> c.size]

\* An audio_buf_list_n that goes on to the second call after a failed size query
audio_buf_list_n_goes_on(h, o, lst, st1, st2, n) ==
    LET c1 == GetAudioBufferListSize(h, o, st1, n)
        lst1 == c1.size
        c2 == GetAudioBufferListFill(h, o, lst1, st2)
        r2 == Status_result(c2.status)
        calls == <<Call("CMSampleBufferGetAudioBufferListWithRetainedBlockBuffer (size)", c1.status),
                   Call("CMSampleBufferGetAudioBufferListWithRetainedBlockBuffer (fill)", c2.status)>>
    IN  IF ~r2.ok
        THEN [h |-> c2.h, res |-> r2, val |-> None, list |-> lst1, calls |-> calls]
        ELSE IF c2.out = None
             THEN [h |-> Corrupt(c2.h, 0), res |-> r2, val |-> Some(0), list |-> lst1,
                   calls |-> calls]
             ELSE [h |-> c2.h, res |-> r2, val |-> c2.out, list |-> lst1, calls |-> calls]

\* audio_buf_list_n(&self, list): the size query, `?`, list.resize, the fill,
\* `?`, block_buf.unwrap_unchecked()
audio_buf_list_n(h, o, lst, st1, st2, n) ==
    LET c1 == GetAudioBufferListSize(h, o, st1, n)
        r1 == Status_result(c1.status)
        lst1 == c1.size
        c2 == GetAudioBufferListFill(h, o, lst1, st2)
        r2 == Status_result(c2.status)
        call1 == Call("CMSampleBufferGetAudioBufferListWithRetainedBlockBuffer (size)", c1.status)
        call2 == Call("CMSampleBufferGetAudioBufferListWithRetainedBlockBuffer (fill)", c2.status)
    IN  IF ~r1.ok
        THEN [h |-> h, res |-> r1, val |-> None, list |-> lst, calls |-> <<call1>>]
        ELSE IF ~r2.ok
        THEN [h |-> c2.h, res |-> r2, val |-> None, list |-> lst1, calls |-> <<call1, call2>>]
        ELSE IF c2.out = None
             THEN [h |-> Corrupt(c2.h, 0), res |-> r2, val |-> Some(0), list |-> lst1,
                   calls |-> <<call1, call2>>]
             ELSE [h |-> c2.h, res |-> r2, val |-> c2.out, list |-> lst1,
                   calls |-> <<call1, call2>>]


\* An audio_buf_list_in that takes a count of its own on the block buffer the
\* foreign call handed over
audio_buf_list_in_retains(h, o, n, st) ==
    LET c == GetAudioBufferListFill(h, o, n, st)
        r == Status_result(c.status)
        calls == <<Call("CMSampleBufferGetAudioBufferListWithRetainedBlockBuffer (fill)", c.status)>>
    IN  IF ~r.ok
        THEN [h |-> c.h, res |-> r, val |-> None, calls |-> calls]
        ELSE IF c.out = None
             THEN [h |-> Corrupt(c.h, 0), res |-> r, val |-> Some(0), calls |-> calls]
             ELSE [h |-> CFRetain(c.h, c.out[1]), res |-> r, val |-> c.out, calls |-> calls]

\* audio_buf_list_in::<N>(&self, flags, allocators): one call with a list of
\* N buffers, `?`, block_buf.unwrap_unchecked()
audio_buf_list_in(h, o, n, st) ==
    LET c == GetAudioBufferListFill(h, o, n, st)
        r == Status_result(c.status)
        calls == <<Call("CMSampleBufferGetAudioBufferListWithRetainedBlockBuffer (fill)", c.status)>>
    IN  IF ~r.ok
        THEN [h |-> c.h, res |-> r, val |-> None, calls |-> calls]
        ELSE IF c.out = None
             THEN [h |-> Corrupt(c.h, 0), res |-> r, val |-> Some(0), calls |-> calls]
             ELSE [h |-> c.h, res |-> r, val |-> c.out, calls |-> calls]

\* audio_buf_list::<N>(&self): audio_buf_list_in with the alignment flag and
\* the default allocators
audio_buf_list(h, o, n, st) == audio_buf_list_in(h, o, n, st)


\* ------------------------------------------------------------ ca::TapDesc
\* A message sent to the object o
Msg(sel, o, args) == [fn |-> sel, to |-> o, args |-> args]

\* TapDesc::alloc(): an arc::A<TapDesc>, a new object that has not been
\* initialised; the value carries the heap and the messages sent so far
TapDesc_alloc(h) ==
    LET o == FreshObj(h)
    IN  [h |-> [h EXCEPT ![o] = Obj("live", 1, TapDesc_type_id, FALSE, FALSE, {})],
         out |-> o, msgs |-> <<Msg("alloc", o, <<>>)>>]

\* #[objc::msg_send(sel)] fn init_..(self, args) -> arc::R<TapDesc>: the
\* message is sent to the allocation, which answers with itself
msg_send_init(a, sel, args) ==
    [h |-> IF IsLive(a.h, a.out)
           THEN [a.h EXCEPT ![a.out].inits = Append(@, [sel |-> sel, args |-> args])]
           ELSE Corrupt(a.h, a.out),
     out |-> a.out, msgs |-> Append(a.msgs, Msg(sel, a.out, args))]

init_stereo_mixdown_of_processes(a, processes_obj_ids_to_include) ==
    msg_send_init(a, "initStereoMixdownOfProcesses:", <<processes_obj_ids_to_include>>)
init_stereo_global_tap_but_exclude_processes(a, processes_obj_ids_to_exclude) ==
    msg_send_init(a, "initStereoGlobalTapButExcludeProcesses:", <<processes_obj_ids_to_exclude>>)
init_mono_mixdown_of_processes(a, processes_obj_ids_to_include) ==
    msg_send_init(a, "initMonoMixdownOfProcesses:", <<processes_obj_ids_to_include>>)
init_mono_global_tap_but_exclude_processes(a, processes_obj_ids_to_exclude) ==
    msg_send_init(a, "initMonoGlobalTapButExcludeProcesses:", <<processes_obj_ids_to_exclude>>)
init_with_processes_and_device(a, processes_obj_ids_to_include, device_uid, stream) ==
    msg_send_init(a, "initWithProcesses:andDeviceUID:withStream:",
                  <<processes_obj_ids_to_include, device_uid, stream>>)
init_excluding_processes_and_device(a, processes_obj_ids_to_exclude, device_uid, stream) ==
    msg_send_init(a, "initExcludingProcesses:andDeviceUID:withStream:",
                  <<processes_obj_ids_to_exclude, device_uid, stream>>)

with_stereo_mixdown_of_processes(h, processes_obj_ids_to_include) ==
    init_stereo_mixdown_of_processes(TapDesc_alloc(h), processes_obj_ids_to_include)

with_stereo_global_tap_excluding_processes(h, processes_obj_ids_to_exclude) ==
    init_stereo_global_tap_but_exclude_processes(TapDesc_alloc(h), processes_obj_ids_to_exclude)

\* A mono constructor that sends the stereo init
with_mono_mixdown_of_processes_stereo(h, processes_obj_ids_to_include) ==
    init_stereo_mixdown_of_processes(TapDesc_alloc(h), processes_obj_ids_to_include)

with_mono_mixdown_of_processes(h, processes_obj_ids_to_include) ==
    init_mono_mixdown_of_processes(TapDesc_alloc(h), processes_obj_ids_to_include)

with_mono_global_tap_excluding_processes(h, processes_obj_ids_to_exclude) ==
    init_mono_global_tap_but_exclude_processes(TapDesc_alloc(h), processes_obj_ids_to_exclude)

with_processes_and_device(h, processes_obj_ids_to_include, device_uid, stream) ==
    init_with_processes_and_device(TapDesc_alloc(h), processes_obj_ids_to_include,
                                   device_uid, stream)

\* ------------------------------------------------------ narrowing (cf::Type)
\* A narrowing that skips the type check
try_as_number_unchecked(h, o) == Some(o)

try_as_number(h, o) ==
    IF get_type_id(h, o) = Number_type_id THEN Some(o) ELSE None

\* A narrowing to string that compares with the number tag
try_as_string_wrong_tag(h, o) ==
    IF get_type_id(h, o) = Number_type_id THEN Some(o) ELSE None

try_as_string(h, o) ==
    IF get_type_id(h, o) = String_type_id THEN Some(o) ELSE None

\* ------------------------------------------------------ program state
\* refs[r]: the local variable r of type arc::R<T>
\*   st     "empty" (not yet bound), "live", "moved" (moved out of),
\*          "dropped" (its Drop has run), "err" (the creation call returned Err)
\*   obj    the address it holds
\*   origin "create", "retain": how the count it owns was obtained
\*   rel    number of releases issued on its behalf
EmptyRef == [st |-> "empty", obj |-> 0, origin |-> "none", rel |-> 0]

\* mon[o]: what the program did with the sample buffer o
\*   flag   the data_ready argument of the creation call
\*   made   a make-ready operation was invoked and did not fail
NoMon == [flag |-> FALSE, made |-> FALSE]

\* last: the operation of the last step
\*   pre, post  the count of obj before and after it
\*   res, val   its result
\*   base       for the release of a reference right after the retain that
\*              produced it: the count before that retain; otherwise -1
\*   fresh      for a query: the step before it was the creation of obj
Last(op, ref, obj, pre, post, res, val, base, fresh) ==
    [op |-> op, ref |-> ref, obj |-> obj, pre |-> pre, post |-> post,
     res |-> res, val |-> val, base |-> base, fresh |-> fresh]

\* fcalls: the status-returning foreign calls the last step made, in order
\* outer: the caller's variable, bound to what the block evaluates to
\* list: the size of the caller's cat::AudioBufListN
\* thr[t]: the worker thread t
\*   obj     the object its owned references point to
\*   held    the owned references it holds
\*   at      "idle", "retained" (CFRetain has returned, the new reference is
\*           not yet bound), "dropping" (a reference was taken out of its
\*           variable, CFRelease is not yet called)
IdleThread == [obj |-> 0, held |-> 0, at |-> "idle"]
\* sub: the same program run with the operations of the base cf::Type
\*   calls   the CFRetain and CFRelease calls the program has made, in order
\*   bheap   the foreign objects of the run on the base type
\*   bcalls  the CFRetain and CFRelease calls of that run, in order
\*   on      the two runs are being compared
NoSub == [calls |-> <<>>, bheap |-> <<>>, bcalls |-> <<>>, on |-> FALSE]
\* stack: the frames of the call in progress, innermost last
\* addr[o]: the address of the object o, the set of the bits that are 1 in it
HeapAddrs == [o \in Objs |-> {3 + o}]
\* call: the ca::TapDesc constructor that the last step on a ca::TapDesc
\* called, with its arguments
NoCall == [fn |-> "none", args |-> <<>>]

Init ==
    /\ heap = [a \in Addrs |-> IF a = 0 THEN NullObj ELSE FreeObj]
    /\ refs = [r \in Refs |-> EmptyRef]
    /\ pc = "run"
    /\ last = Last("init", 0, 0, 0, 0, "-", 0, -1, FALSE)
    /\ mon = [o \in Objs |-> NoMon]
    /\ fcalls = <<>>
    /\ outer = EmptyRef
    /\ list = 0
    /\ thr = [t \in Threads |-> IdleThread]
    /\ sub = NoSub
    /\ stack = <<>>
    /\ addr = HeapAddrs
    /\ call = NoCall

Running == pc = "run" /\ ~UB(heap)

LiveRef(r) == refs[r].st = "live"
\* Locals are declared in order: r is the next variable to be bound
Unbound(r) == refs[r].st = "empty" /\ \A q \in Refs : q < r => refs[q].st # "empty"
LiveRefsTo(o) == {r \in Refs : refs[r].st = "live" /\ refs[r].obj = o}
IsSampleBuf(r) == LiveRef(r) /\ heap[refs[r].obj].tag = SampleBuf_type_id

\* Binds the result of a creation call to the variable r
BindCreated(r, c, flag) ==
    IF c.res.ok
    THEN LET o == c.val[1]
         IN  /\ refs' = [refs EXCEPT ![r] = [st |-> "live", obj |-> o,
                                              origin |-> "create", rel |-> 0]]
             /\ mon' = IF o \in Objs
                       THEN [mon EXCEPT ![o] = [flag |-> flag, made |-> FALSE]]
                       ELSE mon
    ELSE /\ refs' = [refs EXCEPT ![r].st = "err"]
         /\ mon' = mon

CreatedLast(op, r, c) ==
    Last(op, r, IF c.val = None THEN 0 ELSE c.val[1], 0,
         IF c.val = None THEN 0 ELSE c.h[c.val[1]].rc,
         IF c.res.ok THEN "Ok" ELSE "Err", c.status, -1, FALSE)

\* let r = cm::SampleBuf::new(None, data_ready, None)
New(r, data_ready, st) ==
    /\ Running
    /\ Unbound(r)
    /\ LET c == SampleBuf_new(heap, data_ready, st)
       IN  /\ heap' = c.h
           /\ BindCreated(r, c, data_ready)
           /\ last' = CreatedLast("new", r, c)
           /\ fcalls' = <<Call("CMSampleBufferCreate", c.status)>>
    /\ UNCHANGED <<pc, aux>>

\* let r = cm::SampleBuf::with_image_buf(&image_buf, data_ready, ..)
WithImageBuf(r, data_ready, st) ==
    /\ Running
    /\ Unbound(r)
    /\ LET c == with_image_buf(heap, data_ready, st)
       IN  /\ heap' = c.h
           /\ BindCreated(r, c, data_ready)
           /\ last' = CreatedLast("with_image_buf", r, c)
           /\ fcalls' = <<Call("CMSampleBufferCreateForImageBuffer", c.status)>>
    /\ UNCHANGED <<pc, aux>>

\* let r = cf::Number::from_i16(0) / cf::String::create_with_bytes_no_copy_in(..).unwrap()
CfCreate(r, tag) ==
    /\ Running
    /\ Unbound(r)
    /\ HasFree(heap)
    /\ LET o == FreshObj(heap)
       IN  /\ heap' = [heap EXCEPT ![o] = Obj("live", 1, tag, FALSE, FALSE, {})]
           /\ refs' = [refs EXCEPT ![r] = [st |-> "live", obj |-> o,
                                            origin |-> "create", rel |-> 0]]
           /\ last' = Last("cf_create", r, o, 0, 1, "Ok", 0, -1, FALSE)
    /\ UNCHANGED <<mon, pc, aux>>
    /\ fcalls' = <<>>

\* An array that borrows its element instead of taking a count on it
ArrayFromTypeRefs_borrows(r, e) ==
    /\ Running
    /\ Unbound(r)
    /\ LiveRef(e)
    /\ heap[refs[e].obj].tag # Array_type_id
    /\ HasFree(heap)
    /\ LET o == FreshObj(heap)
           x == refs[e].obj
       IN  /\ heap' = [heap EXCEPT
                          ![o] = Obj("live", 1, Array_type_id, FALSE, FALSE, {x})]
           /\ refs' = [refs EXCEPT ![r] = [st |-> "live", obj |-> o,
                                            origin |-> "create", rel |-> 0]]
           /\ last' = Last("from_type_refs", r, o, 0, 1, "Ok", 0, -1, FALSE)
    /\ UNCHANGED <<mon, pc, aux>>
    /\ fcalls' = <<>>

\* let r = cf::Array::from_type_refs(&[null, &e]).unwrap(): the new array
\* holds one count on its element
ArrayFromTypeRefs(r, e) ==
    /\ Running
    /\ Unbound(r)
    /\ LiveRef(e)
    /\ heap[refs[e].obj].tag # Array_type_id
    /\ HasFree(heap)
    /\ LET o == FreshObj(heap)
           x == refs[e].obj
       IN  /\ heap' = [heap EXCEPT
                          ![x].rc = @ + 1,
                          ![o] = Obj("live", 1, Array_type_id, FALSE, FALSE, {x})]
           /\ refs' = [refs EXCEPT ![r] = [st |-> "live", obj |-> o,
                                            origin |-> "create", rel |-> 0]]
           /\ last' = Last("from_type_refs", r, o, 0, 1, "Ok", 0, -1, FALSE)
    /\ UNCHANGED <<mon, pc, aux>>
    /\ fcalls' = <<>>

\* let r = s.retained()
Retain(r, s) ==
    /\ Running
    /\ Unbound(r)
    /\ LiveRef(s)
    /\ LET o == refs[s].obj
           h == retained(heap, o)
       IN  /\ heap' = h
           /\ refs' = [refs EXCEPT ![r] = [st |-> "live", obj |-> o,
                                            origin |-> "retain", rel |-> 0]]
           /\ last' = Last("retain", r, o, heap[o].rc, h[o].rc, "Ok", 0, -1, FALSE)
    /\ UNCHANGED <<mon, pc, aux>>
    /\ fcalls' = <<>>

\* A move that also runs the destructor of the source
Move_drops_source(r, s) ==
    /\ Running
    /\ Unbound(r)
    /\ LiveRef(s)
    /\ LET o == refs[s].obj
           h == R_drop(heap, o)
       IN  /\ heap' = h
           /\ refs' = [refs EXCEPT ![r] = [refs[s] EXCEPT !.rel = 0],
                                   ![s].st = "moved", ![s].rel = @ + 1]
           /\ last' = Last("move", r, o, heap[o].rc, h[o].rc, "-", s, -1, FALSE)
    /\ UNCHANGED <<mon, pc, aux>>
    /\ fcalls' = <<>>

\* let r = s;
Move(r, s) ==
    /\ Running
    /\ Unbound(r)
    /\ LiveRef(s)
    /\ LET o == refs[s].obj
       IN  /\ refs' = [refs EXCEPT ![r] = refs[s], ![s].st = "moved"]
           /\ last' = Last("move", r, o, heap[o].rc, heap[o].rc, "-", s, -1, FALSE)
    /\ UNCHANGED <<heap, mon, pc, aux>>
    /\ fcalls' = <<>>

\* The destructor of r: drop(r) in the body, or the end of r's scope, where
\* the locals are dropped in the reverse order of their declaration
Drop(r) ==
    /\ pc \in {"run", "unwind_ok", "unwind_err"}
    /\ ~UB(heap)
    /\ LiveRef(r)
    /\ pc # "run" => \A q \in Refs : LiveRef(q) => q <= r
    /\ LET o == refs[r].obj
           h == R_drop(heap, o)
       IN  /\ heap' = h
           /\ refs' = [refs EXCEPT ![r].st = "dropped", ![r].rel = @ + 1]
           /\ last' = Last("release", r, o, heap[o].rc, h[o].rc, "-", 0,
                           IF last.op = "retain" /\ last.ref = r THEN last.pre ELSE -1,
                           FALSE)
    /\ UNCHANGED <<mon, pc, aux>>
    /\ fcalls' = <<>>

\* s.try_as_number()
TryAsNumber(s) ==
    /\ Running
    /\ LiveRef(s)
    /\ LET o == refs[s].obj
           v == try_as_number(heap, o)
       IN  last' = Last("try_as_number", s, o, heap[o].rc, heap[o].rc,
                        IF v = None THEN "None" ELSE "Some",
                        IF v = None THEN 0 ELSE v[1], -1, FALSE)
    /\ UNCHANGED <<heap, refs, mon, pc, aux>>
    /\ fcalls' = <<>>

\* s.try_as_string()
TryAsString(s) ==
    /\ Running
    /\ LiveRef(s)
    /\ LET o == refs[s].obj
           v == try_as_string(heap, o)
       IN  last' = Last("try_as_string", s, o, heap[o].rc, heap[o].rc,
                        IF v = None THEN "None" ELSE "Some",
                        IF v = None THEN 0 ELSE v[1], -1, FALSE)
    /\ UNCHANGED <<heap, refs, mon, pc, aux>>
    /\ fcalls' = <<>>

\* s.data_is_ready()
DataIsReady(s) ==
    /\ Running
    /\ IsSampleBuf(s)
    /\ LET o == refs[s].obj
       IN  /\ last' = Last("data_is_ready", s, o, heap[o].rc, heap[o].rc,
                           IF data_is_ready(heap, o) THEN "true" ELSE "false",
                           0, -1,
                           last.op \in {"new", "with_image_buf"} /\ last.res = "Ok"
                               /\ last.obj = o)
    /\ UNCHANGED <<heap, refs, mon, pc, aux>>
    /\ fcalls' = <<>>

\* s.set_data_ready()
SetDataReady(s) ==
    /\ Running
    /\ IsSampleBuf(s)
    /\ LET o == refs[s].obj
           h == set_data_ready(heap, o)
       IN  /\ heap' = h
           /\ last' = Last("set_data_ready", s, o, heap[o].rc, h[o].rc, "-", 0, -1, FALSE)
           /\ mon' = [mon EXCEPT ![o].made = TRUE]
    /\ UNCHANGED <<refs, pc, aux>>
    /\ fcalls' = <<>>

\* s.make_data_ready()
MakeDataReady(s, st) ==
    /\ Running
    /\ IsSampleBuf(s)
    /\ LET o == refs[s].obj
           c == make_data_ready(heap, o, st)
       IN  /\ heap' = c.h
           /\ last' = Last("make_data_ready", s, o, heap[o].rc, c.h[o].rc,
                           IF c.res.ok THEN "Ok" ELSE "Err", c.res.err, -1, FALSE)
           /\ mon' = [mon EXCEPT ![o].made = @ \/ c.res.ok]
           /\ fcalls' = <<Call("CMSampleBufferMakeDataReady", c.status)>>
    /\ UNCHANGED <<refs, pc, aux>>

\* `?` applied to the Err the last call returned: the function returns early
ErrReturn ==
    /\ Running
    /\ last.res = "Err"
    /\ pc' = "unwind_err"
    /\ last' = Last("err_return", 0, 0, 0, 0, "-", 0, -1, FALSE)
    /\ UNCHANGED <<heap, refs, mon, aux>>
    /\ fcalls' = <<>>

\* The end of the function body
ScopeEnd ==
    /\ Running
    /\ pc' = "unwind_ok"
    /\ last' = Last("scope_end", 0, 0, 0, 0, "-", 0, -1, FALSE)
    /\ UNCHANGED <<heap, refs, mon, aux>>
    /\ fcalls' = <<>>

\* Every local has been dropped: the function has returned
Finish ==
    /\ pc \in {"unwind_ok", "unwind_err"}
    /\ ~UB(heap)
    /\ \A r \in Refs : ~LiveRef(r)
    /\ pc' = IF pc = "unwind_ok" THEN "done_ok" ELSE "done_err"
    /\ last' = Last("return", 0, 0, 0, 0, "-", 0, -1, FALSE)
    /\ UNCHANGED <<heap, refs, mon, aux>>
    /\ fcalls' = <<>>

\* ------------------------------------------- cm::SampleBuf, fallible calls
\* let r = cm::SampleBuf::new(Some(&data_buf), data_ready, Some(&audio_format_desc))
NewAudio(r, data_ready, n, st) ==
    /\ Running
    /\ Unbound(r)
    /\ LET c == SampleBuf_new_audio(heap, data_ready, n, st)
       IN  /\ heap' = c.h
           /\ BindCreated(r, c, data_ready)
           /\ last' = CreatedLast("new", r, c)
           /\ fcalls' = <<Call("CMSampleBufferCreate", c.status)>>
    /\ UNCHANGED <<pc, aux>>

\* s.is_valid()
IsValid(s) ==
    /\ Running
    /\ IsSampleBuf(s)
    /\ LET o == refs[s].obj
       IN  last' = Last("is_valid", s, o, heap[o].rc, heap[o].rc,
                        IF is_valid(heap, o) THEN "true" ELSE "false", 0, -1, FALSE)
    /\ UNCHANGED <<heap, refs, mon, pc, aux>>
    /\ fcalls' = <<>>

\* s.invalidate()
Invalidate(s, st) ==
    /\ Running
    /\ IsSampleBuf(s)
    /\ LET o == refs[s].obj
           c == invalidate(heap, o, st)
       IN  /\ heap' = c.h
           /\ last' = Last("invalidate", s, o, heap[o].rc, c.h[o].rc,
                           IF c.res.ok THEN "Ok" ELSE "Err", c.res.err, -1, FALSE)
           /\ fcalls' = <<Call("CMSampleBufferInvalidate", c.status)>>
    /\ UNCHANGED <<refs, mon, pc, aux>>

\* s.set_data_buf(&block_buf)
SetDataBuf(s) ==
    /\ Running
    /\ IsSampleBuf(s)
    /\ LET o == refs[s].obj
           c == set_data_buf(heap, o)
       IN  /\ heap' = c.h
           /\ last' = Last("set_data_buf", s, o, heap[o].rc, c.h[o].rc,
                           IF c.res.ok THEN "Ok" ELSE "Err", c.res.err, -1, FALSE)
           /\ fcalls' = <<Call("CMSampleBufferSetDataBuffer", c.status)>>
    /\ UNCHANGED <<refs, mon, pc, aux>>

\* s.timing_info(sample_index)
TimingInfo(s, st) ==
    /\ Running
    /\ IsSampleBuf(s)
    /\ LET o == refs[s].obj
           c == timing_info(heap, o, st)
       IN  /\ last' = Last("timing_info", s, o, heap[o].rc, heap[o].rc,
                           IF c.res.ok THEN "Ok" ELSE "Err", c.res.err, -1, FALSE)
           /\ fcalls' = <<Call("CMSampleBufferGetSampleTimingInfo", c.status)>>
    /\ UNCHANGED <<heap, refs, mon, pc, aux>>

\* s.copy_pcm_data_into_audio_buf_list(frame_offset, num_frames, &mut buffer_list)
CopyPcm(s, st) ==
    /\ Running
    /\ IsSampleBuf(s)
    /\ LET o == refs[s].obj
           c == copy_pcm_data_into_audio_buf_list(heap, o, st)
       IN  /\ last' = Last("copy_pcm_data_into_audio_buf_list", s, o, heap[o].rc,
                           heap[o].rc, IF c.res.ok THEN "Ok" ELSE "Err", c.res.err,
                           -1, FALSE)
           /\ fcalls' = <<Call("CMSampleBufferCopyPCMDataIntoAudioBufferList", c.status)>>
    /\ UNCHANGED <<heap, refs, mon, pc, aux>>

\* s.audio_stream_packet_descs()
\*   val   the status in an Err, the length of the slice in an Ok(Some(slice))
\*   base  right after the same call on the same variable: the status that
\*         call returned
AudioStreamPacketDescs(s) ==
    /\ Running
    /\ IsSampleBuf(s)
    /\ LET o == refs[s].obj
           c == audio_stream_packet_descs(heap, o)
       IN  /\ last' = Last("audio_stream_packet_descs", s, o, heap[o].rc, heap[o].rc,
                           IF ~c.res.ok THEN "Err"
                           ELSE IF c.val = None THEN "Ok(None)" ELSE "Ok(Some)",
                           IF ~c.res.ok THEN c.res.err
                           ELSE IF c.val = None THEN 0 ELSE c.val[1].len,
                           IF last.op = "audio_stream_packet_descs" /\ last.ref = s
                           THEN (IF last.res = "Err" THEN last.val ELSE 0)
                           ELSE -1,
                           FALSE)
           /\ fcalls' = <<Call("CMSampleBufferGetAudioStreamPacketDescriptionsPtr",
                               c.status)>>
    /\ UNCHANGED <<heap, refs, mon, pc, aux>>

\* let r = s.audio_buf_list_n(&mut list): r holds the block buffer
AudioBufListN(r, s, st1, st2, n) ==
    /\ Running
    /\ Unbound(r)
    /\ IsSampleBuf(s)
    /\ LET o == refs[s].obj
           c == audio_buf_list_n(heap, o, list, st1, st2, n)
       IN  /\ heap' = c.h
           /\ list' = c.list
           /\ refs' = IF c.res.ok
                      THEN [refs EXCEPT ![r] = [st |-> "live", obj |-> c.val[1],
                                                origin |-> "create", rel |-> 0]]
                      ELSE [refs EXCEPT ![r].st = "err"]
           /\ last' = Last("audio_buf_list_n", r, o, heap[o].rc, c.h[o].rc,
                           IF c.res.ok THEN "Ok" ELSE "Err", c.res.err, -1, FALSE)
           /\ fcalls' = c.calls
    /\ UNCHANGED <<mon, pc, outer, thr, sub, stack, addr, call>>


\* Binds the result of an audio_buf_list call, which holds the block buffer,
\* to the variable r
BindBufList(op, r, o, c) ==
    /\ heap' = c.h
    /\ refs' = IF c.res.ok
               THEN [refs EXCEPT ![r] = [st |-> "live", obj |-> c.val[1],
                                         origin |-> "create", rel |-> 0]]
               ELSE [refs EXCEPT ![r].st = "err"]
    /\ last' = Last(op, r, o, heap[o].rc, c.h[o].rc,
                    IF c.res.ok THEN "Ok" ELSE "Err", c.res.err, -1, FALSE)
    /\ fcalls' = c.calls

\* let r = s.audio_buf_list_in::<N>(flags, None, None)
AudioBufListIn(r, s, n, st) ==
    /\ Running
    /\ Unbound(r)
    /\ IsSampleBuf(s)
    /\ BindBufList("audio_buf_list_in", r, refs[s].obj,
                   audio_buf_list_in(heap, refs[s].obj, n, st))
    /\ UNCHANGED <<mon, pc, aux>>

\* let r = s.audio_buf_list::<N>()
AudioBufList(r, s, n, st) ==
    /\ Running
    /\ Unbound(r)
    /\ IsSampleBuf(s)
    /\ BindBufList("audio_buf_list", r, refs[s].obj,
                   audio_buf_list(heap, refs[s].obj, n, st))
    /\ UNCHANGED <<mon, pc, aux>>

\* ------------------------------------------------ cm::SampleBuf, accessors
OptionLast(op, s, o, v) ==
    Last(op, s, o, heap[o].rc, heap[o].rc, IF v = None THEN "None" ELSE "Some",
         IF v = None THEN 0 ELSE v[1], -1, FALSE)

\* A get_type_id that takes a count on the object it asks about
GetTypeId_retains(s) ==
    /\ Running
    /\ LiveRef(s)
    /\ LET o == refs[s].obj
       IN  /\ heap' = Type_retain(heap, o)
           /\ last' = Last("get_type_id", s, o, heap[o].rc, heap[o].rc,
                           get_type_id(heap, o), 0, -1, FALSE)
    /\ UNCHANGED <<refs, mon, pc, aux>>
    /\ fcalls' = <<>>

\* s.get_type_id()
GetTypeId(s) ==
    /\ Running
    /\ LiveRef(s)
    /\ LET o == refs[s].obj
       IN  last' = Last("get_type_id", s, o, heap[o].rc, heap[o].rc,
                        get_type_id(heap, o), 0, -1, FALSE)
    /\ UNCHANGED <<heap, refs, mon, pc, aux>>
    /\ fcalls' = <<>>

\* s.as_type_ptr()
AsTypePtr(s) ==
    /\ Running
    /\ LiveRef(s)
    /\ LET o == refs[s].obj
       IN  last' = Last("as_type_ptr", s, o, heap[o].rc, heap[o].rc, "-",
                        as_type_ptr(o), -1, FALSE)
    /\ UNCHANGED <<heap, refs, mon, pc, aux>>
    /\ fcalls' = <<>>

\* s.image_buf()
ImageBuf(s) ==
    /\ Running
    /\ IsSampleBuf(s)
    /\ last' = OptionLast("image_buf", s, refs[s].obj, image_buf(heap, refs[s].obj))
    /\ UNCHANGED <<heap, refs, mon, pc, aux>>
    /\ fcalls' = <<>>

\* s.data_buf()
DataBuf(s) ==
    /\ Running
    /\ IsSampleBuf(s)
    /\ last' = OptionLast("data_buf", s, refs[s].obj, data_buf(heap, refs[s].obj))
    /\ UNCHANGED <<heap, refs, mon, pc, aux>>
    /\ fcalls' = <<>>

\* s.format_desc()
FormatDesc(s) ==
    /\ Running
    /\ IsSampleBuf(s)
    /\ last' = OptionLast("format_desc", s, refs[s].obj, format_desc(heap, refs[s].obj))
    /\ UNCHANGED <<heap, refs, mon, pc, aux>>
    /\ fcalls' = <<>>

\* s.attaches(create_if_necessary)
Attaches(s, create_if_necessary) ==
    /\ Running
    /\ IsSampleBuf(s)
    /\ LET o == refs[s].obj
           c == attaches(heap, o, create_if_necessary)
       IN  /\ heap' = c.h
           /\ last' = OptionLast("attaches", s, o, c.val)
    /\ UNCHANGED <<refs, mon, pc, aux>>
    /\ fcalls' = <<>>

\* s.attaches_mut(true).unwrap()[0].insert(k, v), on a buffer that has a sample
AttachInsert(s, k, v) ==
    /\ Running
    /\ IsSampleBuf(s)
    /\ CMSampleBufferGetNumSamples(heap, refs[s].obj) > 0
    /\ LET o == refs[s].obj
           c == attaches(heap, o, TRUE)
           arr == c.h[o].att[1]
       IN  /\ heap' = [c.h EXCEPT ![o].att =
                          Some([arr EXCEPT ![1] = Dict_insert(arr[1], k, v)])]
           /\ last' = Last("attach_insert", s, o, heap[o].rc, heap[o].rc, k, 0, -1, FALSE)
    /\ UNCHANGED <<refs, mon, pc, aux>>
    /\ fcalls' = <<>>

\* s.is_key_frame()
IsKeyFrame(s) ==
    /\ Running
    /\ IsSampleBuf(s)
    /\ LET o == refs[s].obj
       IN  /\ heap' = is_key_frame_attaches(heap, o).h
           /\ last' = Last("is_key_frame", s, o, heap[o].rc, heap[o].rc,
                           IF is_key_frame(heap, o) THEN "true" ELSE "false", 0, -1, FALSE)
    /\ UNCHANGED <<refs, mon, pc, aux>>
    /\ fcalls' = <<>>

\* unsafe { s.contains_not_sync() }
\*   base  right after is_key_frame on the same variable: 0 if that call
\*         answered false, 1 if it answered true; otherwise -1
ContainsNotSync(s) ==
    /\ Running
    /\ IsSampleBuf(s)
    /\ LET o == refs[s].obj
           c == contains_not_sync(heap, o)
       IN  /\ heap' = c.h
           /\ last' = Last("contains_not_sync", s, o, heap[o].rc, heap[o].rc,
                           IF c.val THEN "true" ELSE "false", 0,
                           IF last.op = "is_key_frame" /\ last.ref = s
                           THEN (IF last.res = "false" THEN 0 ELSE 1)
                           ELSE -1,
                           FALSE)
    /\ UNCHANGED <<refs, mon, pc, aux>>
    /\ fcalls' = <<>>

\* ------------------------------------------------ threads (SampleBuf: Send)
\* let c = s.retained(); thread::spawn(move || ..): the main thread hands an
\* owned reference of its own to the thread t
Spawn(t, s) ==
    /\ Running
    /\ IsSampleBuf(s)
    /\ thr[t].obj = 0
    /\ heap[refs[s].obj].nret < MaxRetains
    /\ LET o == refs[s].obj
           h == retained(heap, o)
       IN  /\ heap' = h
           /\ thr' = [thr EXCEPT ![t] = [obj |-> o, held |-> 1, at |-> "idle"]]
           /\ last' = Last("spawn", s, o, heap[o].rc, h[o].rc, "-", t, -1, FALSE)
    /\ UNCHANGED <<refs, mon, pc, outer, list, sub, stack, addr, call>>
    /\ fcalls' = <<>>

\* A thread that copies its handle instead of retaining it
ThreadRetain_copies(t) ==
    /\ ~UB(heap)
    /\ thr[t].at = "idle"
    /\ thr[t].held >= 1
    /\ heap[thr[t].obj].nret < MaxRetains
    /\ thr' = [thr EXCEPT ![t].at = "retained"]
    /\ UNCHANGED <<heap, refs, mon, pc, last, outer, list, sub, stack, addr, call>>
    /\ fcalls' = <<>>

\* The thread t calls retained() on a reference it holds: CFRetain is one
\* foreign call
ThreadRetain(t) ==
    /\ ~UB(heap)
    /\ thr[t].at = "idle"
    /\ thr[t].held >= 1
    /\ heap[thr[t].obj].nret < MaxRetains
    /\ heap' = retained(heap, thr[t].obj)
    /\ thr' = [thr EXCEPT ![t].at = "retained"]
    /\ UNCHANGED <<refs, mon, pc, last, outer, list, sub, stack, addr, call>>
    /\ fcalls' = <<>>

\* The thread t binds the owned reference retained() returned
ThreadBind(t) ==
    /\ ~UB(heap)
    /\ thr[t].at = "retained"
    /\ thr' = [thr EXCEPT ![t].at = "idle", ![t].held = @ + 1]
    /\ UNCHANGED <<heap, refs, mon, pc, last, outer, list, sub, stack, addr, call>>
    /\ fcalls' = <<>>

\* A variable of the thread t goes out of scope: its Drop starts
ThreadTake(t) ==
    /\ ~UB(heap)
    /\ thr[t].at = "idle"
    /\ thr[t].held >= 1
    /\ thr' = [thr EXCEPT ![t].at = "dropping", ![t].held = @ - 1]
    /\ UNCHANGED <<heap, refs, mon, pc, last, outer, list, sub, stack, addr, call>>
    /\ fcalls' = <<>>

\* The Drop of the thread t releases: CFRelease is one foreign call
ThreadRelease(t) ==
    /\ ~UB(heap)
    /\ thr[t].at = "dropping"
    /\ heap' = R_drop(heap, thr[t].obj)
    /\ thr' = [thr EXCEPT ![t].at = "idle"]
    /\ UNCHANGED <<refs, mon, pc, last, outer, list, sub, stack, addr, call>>
    /\ fcalls' = <<>>

\* ------------------------------------------- the block of tests::it_works
\* s.show()
Show(s) ==
    /\ Running
    /\ LiveRef(s)
    /\ LET o == refs[s].obj
           h == CFShow(heap, o)
       IN  /\ heap' = h
           /\ last' = Last("show", s, o, heap[o].rc, h[o].rc, "-", 0, -1, FALSE)
    /\ UNCHANGED <<refs, mon, pc, aux>>
    /\ fcalls' = <<>>

\* let f = { ..; s }: the block evaluates to s, which is moved into the
\* caller's variable; the other locals of the block are then dropped
BlockValue(s) ==
    /\ Running
    /\ LiveRef(s)
    /\ outer' = refs[s]
    /\ refs' = [refs EXCEPT ![s].st = "moved"]
    /\ pc' = "unwind_ok"
    /\ last' = Last("block_value", s, refs[s].obj, heap[refs[s].obj].rc,
                    heap[refs[s].obj].rc, "-", 0, -1, FALSE)
    /\ UNCHANGED <<heap, mon, list, thr, sub, stack, addr, call>>
    /\ fcalls' = <<>>

\* f.show(), after the block
ShowOuter ==
    /\ pc = "done_ok"
    /\ ~UB(heap)
    /\ outer.st = "live"
    /\ LET o == outer.obj
           h == CFShow(heap, o)
       IN  /\ heap' = h
           /\ last' = Last("show_outer", 0, o, heap[o].rc, h[o].rc, "-", 0, -1, FALSE)
    /\ UNCHANGED <<refs, mon, pc, aux>>
    /\ fcalls' = <<>>

\* The end of the caller: f is dropped
DropOuter ==
    /\ pc = "done_ok"
    /\ ~UB(heap)
    /\ outer.st = "live"
    /\ LET o == outer.obj
           h == R_drop(heap, o)
       IN  /\ heap' = h
           /\ outer' = [outer EXCEPT !.st = "dropped", !.rel = @ + 1]
           /\ last' = Last("release_outer", 0, o, heap[o].rc, h[o].rc, "-", 0, -1, FALSE)
    /\ UNCHANGED <<refs, mon, pc, list, thr, sub, stack, addr, call>>
    /\ fcalls' = <<>>

Next ==
    \/ \E r \in Refs, b \in BOOLEAN, st \in CreateStatuses : New(r, b, st)
    \/ \E r \in Refs, b \in BOOLEAN, st \in CreateStatuses : WithImageBuf(r, b, st)
    \/ \E r \in Refs, t \in {Number_type_id, String_type_id} : CfCreate(r, t)
    \/ \E r, e \in Refs : ArrayFromTypeRefs(r, e)
    \/ \E r, s \in Refs : Retain(r, s)
    \/ \E r, s \in Refs : Move(r, s)
    \/ \E r \in Refs : Drop(r)
    \/ \E s \in Refs : TryAsNumber(s)
    \/ \E s \in Refs : TryAsString(s)
    \/ \E s \in Refs : DataIsReady(s)
    \/ \E s \in Refs : SetDataReady(s)
    \/ \E s \in Refs, st \in {noErr, BUFFER_NOT_READY} : MakeDataReady(s, st)
    \/ ErrReturn
    \/ ScopeEnd
    \/ Finish

Spec == Init /\ [][Next]_vars

\* The block of tests::it_works and its caller: objects, a container, moves,
\* the value of the block and the use of it after the block
NextContainer ==
    \/ \E r \in Refs, t \in {Number_type_id, String_type_id} : CfCreate(r, t)
    \/ \E r, e \in Refs : ArrayFromTypeRefs(r, e)
    \/ \E r, s \in Refs : Move(r, s)
    \/ \E r \in Refs : Drop(r)
    \/ \E s \in Refs : Show(s)
    \/ \E s \in Refs : BlockValue(s)
    \/ Finish
    \/ ShowOuter
    \/ DropOuter

SpecContainer == Init /\ [][NextContainer]_vars

\* Fewer than k objects have been allocated so far
RoomFor(k) == Cardinality({o \in Objs : heap[o].state # "free"}) < k

\* A function that creates at most MaxBufs sample buffers and applies the
\* fallible calls
FailStatuses == {noErr, ARRAY_TOO_SMALL}
BufListSizes == {1, 2}
NextStatus ==
    \/ \E r \in Refs, b \in BOOLEAN, st \in CreateStatuses :
          RoomFor(MaxBufs) /\ New(r, b, st)
    \/ \E r \in Refs, n \in 0..MaxPackets, st \in CreateStatuses :
          RoomFor(MaxBufs) /\ NewAudio(r, TRUE, n, st)
    \/ \E r \in Refs : Drop(r)
    \/ \E s \in Refs : IsValid(s)
    \/ \E s \in Refs, st \in {noErr, INVALIDATED} : Invalidate(s, st)
    \/ \E s \in Refs : SetDataBuf(s)
    \/ \E s \in Refs, st \in {noErr, BUFFER_NOT_READY} : MakeDataReady(s, st)
    \/ \E s \in Refs, st \in {noErr, SAMPLE_INDEX_OUT_OF_RANGE} : TimingInfo(s, st)
    \/ \E s \in Refs, st \in FailStatuses : CopyPcm(s, st)
    \/ ErrReturn
    \/ ScopeEnd
    \/ Finish

SpecStatus == Init /\ [][NextStatus]_vars

\* The main thread creates one sample buffer in its first variable and hands
\* owned references to threads; every thread retains and releases on its own
NextThreads ==
    \/ \E st \in CreateStatuses : New(1, TRUE, st)
    \/ \E r \in Refs : Drop(r)
    \/ \E t \in Threads, s \in Refs : Spawn(t, s)
    \/ \E t \in Threads : ThreadRetain(t)
    \/ \E t \in Threads : ThreadBind(t)
    \/ \E t \in Threads : ThreadTake(t)
    \/ \E t \in Threads : ThreadRelease(t)

SpecThreads == Init /\ [][NextThreads]_vars

\* A function that creates objects and applies the borrowing queries
NextAccess ==
    \/ \E r \in Refs, st \in CreateStatuses : RoomFor(MaxBufs) /\ New(r, TRUE, st)
    \/ \E r \in Refs, st \in CreateStatuses : RoomFor(MaxBufs) /\ WithImageBuf(r, TRUE, st)
    \/ \E r \in Refs, t \in {Number_type_id, String_type_id} :
          RoomFor(MaxBufs) /\ CfCreate(r, t)
    \/ \E r, s \in Refs : Retain(r, s)
    \/ \E r \in Refs : Drop(r)
    \/ \E s \in Refs : SetDataBuf(s)
    \/ \E s \in Refs : GetTypeId(s)
    \/ \E s \in Refs : AsTypePtr(s)
    \/ \E s \in Refs : TryAsNumber(s)
    \/ \E s \in Refs : TryAsString(s)
    \/ \E s \in Refs : ImageBuf(s)
    \/ \E s \in Refs : DataBuf(s)
    \/ \E s \in Refs : FormatDesc(s)
    \/ \E s \in Refs, b \in BOOLEAN : Attaches(s, b)

SpecAccess == Init /\ [][NextAccess]_vars

\* A function that creates sample buffers, edits the attachments of their
\* first sample and asks whether they are key frames
AttachKeys == {not_sync, do_not_display}
AttachValues == {value_false, value_true, tagged_i8_1}
NextAttach ==
    \/ \E r \in Refs, st \in CreateStatuses : RoomFor(MaxBufs) /\ New(r, TRUE, st)
    \/ \E r \in Refs, st \in CreateStatuses : RoomFor(MaxBufs) /\ WithImageBuf(r, TRUE, st)
    \/ \E r \in Refs : Drop(r)
    \/ \E s \in Refs, b \in BOOLEAN : Attaches(s, b)
    \/ \E s \in Refs, k \in AttachKeys, v \in AttachValues : AttachInsert(s, k, v)
    \/ \E s \in Refs : IsKeyFrame(s)

SpecAttach == Init /\ [][NextAttach]_vars

\* The same function, asking contains_not_sync as well
NextKeyFrame ==
    \/ \E r \in Refs, st \in CreateStatuses : RoomFor(MaxBufs) /\ New(r, TRUE, st)
    \/ \E r \in Refs, st \in CreateStatuses : RoomFor(MaxBufs) /\ WithImageBuf(r, TRUE, st)
    \/ \E r \in Refs : Drop(r)
    \/ \E s \in Refs, b \in BOOLEAN : Attaches(s, b)
    \/ \E s \in Refs, k \in AttachKeys, v \in AttachValues : AttachInsert(s, k, v)
    \/ \E s \in Refs : IsKeyFrame(s)
    \/ \E s \in Refs : ContainsNotSync(s)

SpecKeyFrame == Init /\ [][NextKeyFrame]_vars

\* A function that creates video and audio sample buffers and applies the
\* audio calls
NextAudio ==
    \/ \E r \in Refs, st \in CreateStatuses : WithImageBuf(r, TRUE, st)
    \/ \E r \in Refs, n \in 0..MaxPackets, st \in CreateStatuses : NewAudio(r, TRUE, n, st)
    \/ \E r \in Refs : Drop(r)
    \/ \E s \in Refs : AudioStreamPacketDescs(s)
    \/ \E r, s \in Refs, st1, st2 \in FailStatuses, n \in BufListSizes :
          AudioBufListN(r, s, st1, st2, n)
    \/ \E s \in Refs, st \in {noErr, INVALIDATED} : Invalidate(s, st)
    \/ ErrReturn
    \/ ScopeEnd
    \/ Finish

\* The caller's list has any size before the call
InitAudio ==
    /\ heap = [a \in Addrs |-> IF a = 0 THEN NullObj ELSE FreeObj]
    /\ refs = [r \in Refs |-> EmptyRef]
    /\ pc = "run"
    /\ last = Last("init", 0, 0, 0, 0, "-", 0, -1, FALSE)
    /\ mon = [o \in Objs |-> NoMon]
    /\ fcalls = <<>>
    /\ outer = EmptyRef
    /\ list \in {0} \cup BufListSizes
    /\ thr = [t \in Threads |-> IdleThread]
    /\ sub = NoSub
    /\ stack = <<>>
    /\ addr = HeapAddrs
    /\ call = NoCall

SpecAudio == InitAudio /\ [][NextAudio]_vars


\* A function that asks audio and video sample buffers for their audio
\* buffer lists and drops the results
NextBufList ==
    \/ \E r \in Refs, st \in CreateStatuses : WithImageBuf(r, TRUE, st)
    \/ \E r \in Refs, st \in CreateStatuses : NewAudio(r, TRUE, 0, st)
    \/ \E r \in Refs : Drop(r)
    \/ \E r, s \in Refs, st1, st2 \in FailStatuses, n \in BufListSizes :
          AudioBufListN(r, s, st1, st2, n)
    \/ \E r, s \in Refs, st \in FailStatuses, n \in BufListSizes :
          AudioBufListIn(r, s, n, st)
    \/ \E r, s \in Refs, st \in FailStatuses, n \in BufListSizes :
          AudioBufList(r, s, n, st)
    \/ ErrReturn
    \/ ScopeEnd
    \/ Finish

SpecBufList == Init /\ [][NextBufList]_vars


\* ------------------------------------- a subtype and the base type, side by side
\* Both runs append the foreign calls that lead to their new heaps
SubStep(h2, b2) ==
    /\ heap' = h2
    /\ sub' = [sub EXCEPT !.calls = @ \o ForeignCalls(heap, h2),
                          !.bheap = b2,
                          !.bcalls = @ \o ForeignCalls(sub.bheap, b2)]
    /\ fcalls' = <<>>
    /\ UNCHANGED <<pc, outer, list, thr, stack, addr, call>>

\* let r = cm::SampleBuf::new(None, data_ready, None), in both runs
SubNew(r, data_ready, st) ==
    /\ Running
    /\ Unbound(r)
    /\ LET c == SampleBuf_new(heap, data_ready, st)
           b == SampleBuf_new(sub.bheap, data_ready, st)
       IN  /\ SubStep(c.h, b.h)
           /\ BindCreated(r, c, data_ready)
           /\ last' = CreatedLast("new", r, c)

\* let r = s.retained() on the cm::SampleBuf s; the run on the base type
\* calls retained() on the cf::Type at the same address
SubRetained(r, s) ==
    /\ Running
    /\ Unbound(r)
    /\ IsSampleBuf(s)
    /\ LET o == refs[s].obj
           h == SampleBuf_retained(heap, o)
       IN  /\ SubStep(h, retained(sub.bheap, o))
           /\ refs' = [refs EXCEPT ![r] = [st |-> "live", obj |-> o,
                                            origin |-> "retain", rel |-> 0]]
           /\ last' = Last("sub_retained", r, o, heap[o].rc, h[o].rc, "Ok", 0, -1, FALSE)
    /\ UNCHANGED mon

\* The destructor of the arc::R<cm::SampleBuf> r, in the body or at the end
\* of r's scope: the release of the subtype; the run on the base type
\* releases the cf::Type at the same address
SubRelease(r) ==
    /\ pc \in {"run", "unwind_ok", "unwind_err"}
    /\ ~UB(heap)
    /\ IsSampleBuf(r)
    /\ pc # "run" => \A q \in Refs : LiveRef(q) => q <= r
    /\ LET o == refs[r].obj
           h == SampleBuf_release(heap, o)
       IN  /\ SubStep(h, release(sub.bheap, o))
           /\ refs' = [refs EXCEPT ![r].st = "dropped", ![r].rel = @ + 1]
           /\ last' = Last("sub_release", r, o, heap[o].rc, h[o].rc, "-", 0, -1, FALSE)
    /\ UNCHANGED mon

\* let t: &cf::Type = &s: the base view of the cm::SampleBuf s, asked for its
\* address and its type id
SubDeref(s) ==
    /\ Running
    /\ IsSampleBuf(s)
    /\ LET o == refs[s].obj
           view == deref(deref(o))
       IN  /\ SubStep(heap, sub.bheap)
           /\ last' = Last("deref", s, o, heap[o].rc, heap[o].rc,
                           get_type_id(heap, view), as_type_ptr(view), -1, FALSE)
    /\ UNCHANGED <<refs, mon>>

NextSubtype ==
    \/ \E r \in Refs, b \in BOOLEAN, st \in CreateStatuses : SubNew(r, b, st)
    \/ \E r, s \in Refs : SubRetained(r, s)
    \/ \E r \in Refs : SubRelease(r)
    \/ \E s \in Refs : SubDeref(s)
    \/ ErrReturn
    \/ ScopeEnd
    \/ Finish

\* The run on the base type starts from the same heap
InitSubtype ==
    /\ heap = [a \in Addrs |-> IF a = 0 THEN NullObj ELSE FreeObj]
    /\ refs = [r \in Refs |-> EmptyRef]
    /\ pc = "run"
    /\ last = Last("init", 0, 0, 0, 0, "-", 0, -1, FALSE)
    /\ mon = [o \in Objs |-> NoMon]
    /\ fcalls = <<>>
    /\ outer = EmptyRef
    /\ list = 0
    /\ thr = [t \in Threads |-> IdleThread]
    /\ sub = [calls |-> <<>>, bheap |-> heap, bcalls |-> <<>>, on |-> TRUE]
    /\ stack = <<>>
    /\ addr = HeapAddrs
    /\ call = NoCall

SpecSubtype == InitSubtype /\ [][NextSubtype]_vars


\* ------------------------------------------------------- tagged pointers
\* s.is_tagged_ptr()
IsTaggedPtr(s) ==
    /\ Running
    /\ LiveRef(s)
    /\ LET o == refs[s].obj
       IN  last' = Last("is_tagged_ptr", s, o, heap[o].rc, heap[o].rc,
                        IF is_tagged_ptr(addr[as_type_ptr(o)]) THEN "true" ELSE "false",
                        0, -1, FALSE)
    /\ fcalls' = <<>>
    /\ UNCHANGED <<heap, refs, mon, pc, aux>>

\* Addresses with each combination of the bits 0, 62 and 63, the largest
\* address below 2^63, and 2^63 itself
TagBits == {0, 62, 63}
SampleAddrs == {S \cup {4} : S \in SUBSET TagBits} \cup {0..62, {63}}

\* The objects are at any distinct addresses
InitTagged ==
    /\ heap = [a \in Addrs |-> IF a = 0 THEN NullObj ELSE FreeObj]
    /\ refs = [r \in Refs |-> EmptyRef]
    /\ pc = "run"
    /\ last = Last("init", 0, 0, 0, 0, "-", 0, -1, FALSE)
    /\ mon = [o \in Objs |-> NoMon]
    /\ fcalls = <<>>
    /\ outer = EmptyRef
    /\ list = 0
    /\ thr = [t \in Threads |-> IdleThread]
    /\ sub = NoSub
    /\ stack = <<>>
    /\ addr \in {f \in [Objs -> SampleAddrs] : \A o, p \in Objs : o # p => f[o] # f[p]}
    /\ call = NoCall

NextTagged ==
    \/ \E r \in Refs : CfCreate(r, Number_type_id)
    \/ \E r, s \in Refs : Retain(r, s)
    \/ \E r \in Refs : Drop(r)
    \/ \E s \in Refs : IsTaggedPtr(s)

SpecTagged == InitTagged /\ [][NextTagged]_vars


\* ------------------------------------------------------- matching an error
\* match <the result of the call before> { Err(cm::sample_buf_err::<name>) =>
\* .., _ => .. }: the arm taken
MatchErr(name) ==
    /\ Running
    /\ fcalls # <<>>
    /\ last' = Last("match", last.ref, last.obj, last.post, last.post,
                    IF last.res = "Err" /\ last.val = err_code(name) THEN name ELSE "_",
                    last.val, -1, FALSE)
    /\ fcalls' = <<>>
    /\ UNCHANGED <<heap, refs, mon, pc, aux>>

\* A function whose foreign calls fail with any of the named codes and that
\* matches the errors against the named constants
NextErr ==
    \/ \E r \in Refs, b \in BOOLEAN, st \in ErrCodes \cup {noErr} :
          RoomFor(MaxBufs) /\ New(r, b, st)
    \/ \E r \in Refs, st \in ErrCodes \cup {noErr} :
          RoomFor(MaxBufs) /\ WithImageBuf(r, TRUE, st)
    \/ \E s \in Refs : AudioStreamPacketDescs(s)
    \/ \E name \in ErrNames : MatchErr(name)
    \/ \E r \in Refs : Drop(r)
    \/ ErrReturn
    \/ ScopeEnd
    \/ Finish

SpecErr == Init /\ [][NextErr]_vars


\* ------------------------------------------- retained() through arc::Retain
\* A frame of the call stack
\*   fn   the function, obj the object it was called on
\*   ref  the variable the result of the outermost call is bound to
\*   pre  the count of obj when the outermost call began
\*   at   "body" (running its body), "wait" (its callee has not returned)
Frame(fn, o, r, pre) == [fn |-> fn, obj |-> o, ref |-> r, pre |-> pre, at |-> "body"]
Top == stack[Len(stack)]
Pop == SubSeq(stack, 1, Len(stack) - 1)

\* let r = arc::Retain::retained(&s): the call enters the trait's method
CallRetained(r, s) ==
    /\ Running
    /\ stack = <<>>
    /\ Unbound(r)
    /\ IsSampleBuf(s)
    /\ LET o == refs[s].obj
       IN  /\ stack' = <<Frame(<<"SampleBuf", "trait", "retained">>, o, r, heap[o].rc)>>
           /\ last' = Last("call_retained", r, o, heap[o].rc, heap[o].rc, "-", 0, -1, FALSE)
    /\ fcalls' = <<>>
    /\ UNCHANGED <<heap, refs, mon, pc, outer, list, thr, sub, addr, call>>

\* The function on top calls the function its body names
Enter ==
    /\ Running
    /\ stack # <<>>
    /\ Top.at = "body"
    /\ Callee(Top.fn) # None
    /\ Len(stack) < MaxDepth
    /\ stack' = Append([stack EXCEPT ![Len(stack)].at = "wait"],
                       Frame(Callee(Top.fn)[1], Top.obj, Top.ref, Top.pre))
    /\ last' = Last("enter", Top.ref, Top.obj, heap[Top.obj].rc, heap[Top.obj].rc,
                    "-", 0, -1, FALSE)
    /\ fcalls' = <<>>
    /\ UNCHANGED <<heap, refs, mon, pc, outer, list, thr, sub, addr, call>>

\* A function returns to its caller; cf::Type::retain calls CFRetain first.
\* The return of the outermost call binds the owned reference.
Return ==
    /\ Running
    /\ stack # <<>>
    /\ Top.at = "wait" \/ Callee(Top.fn) = None
    /\ LET o == Top.obj
           h == IF Callee(Top.fn) = None THEN Type_retain(heap, o) ELSE heap
       IN  /\ heap' = h
           /\ stack' = Pop
           /\ refs' = IF Len(stack) = 1
                      THEN [refs EXCEPT ![Top.ref] = [st |-> "live", obj |-> o,
                                                      origin |-> "retain", rel |-> 0]]
                      ELSE refs
           /\ last' = IF Len(stack) = 1
                      THEN Last("retained_by_trait", Top.ref, o, Top.pre, h[o].rc, "Ok", 0, -1, FALSE)
                      ELSE Last("return_to", Top.ref, o, heap[o].rc, h[o].rc, "-", 0, -1, FALSE)
    /\ fcalls' = <<>>
    /\ UNCHANGED <<mon, pc, outer, list, thr, sub, addr, call>>

\* A function that retains sample buffers through the trait; nothing else
\* runs while a call is in progress
NextCall ==
    \/ \E r \in Refs, b \in BOOLEAN, st \in CreateStatuses : stack = <<>> /\ New(r, b, st)
    \/ \E r, s \in Refs : CallRetained(r, s)
    \/ Enter
    \/ Return
    \/ \E r \in Refs : stack = <<>> /\ Drop(r)
    \/ stack = <<>> /\ ErrReturn
    \/ stack = <<>> /\ ScopeEnd
    \/ stack = <<>> /\ Finish

SpecCall == Init /\ [][NextCall]_vars

\* The thread that made the call keeps running it
SpecCallFair == SpecCall /\ WF_vars(Enter) /\ WF_vars(Return)


\* ------------------------------------------------------------ ca::TapDesc
\* The arguments: process lists, device uids and stream indexes
ProcLists == {0, 1}
DeviceUids == {2}
Streams == {0, 1}
Ctors ==
    {"with_stereo_mixdown_of_processes", "with_stereo_global_tap_excluding_processes",
     "with_mono_mixdown_of_processes", "with_mono_global_tap_excluding_processes",
     "with_processes_and_device"}
Inits ==
    {"init_stereo_mixdown_of_processes", "init_stereo_global_tap_but_exclude_processes",
     "init_mono_mixdown_of_processes", "init_mono_global_tap_but_exclude_processes",
     "init_with_processes_and_device", "init_excluding_processes_and_device"}
ArgsOf(fn, procs, uid, stream) ==
    IF fn \in {"with_processes_and_device", "init_with_processes_and_device",
               "init_excluding_processes_and_device"}
    THEN <<procs, uid, stream>> ELSE <<procs>>

\* ca::TapDesc::<ctor>(args)
CallCtor(ctor, h, procs, uid, stream) ==
    CASE ctor = "with_stereo_mixdown_of_processes" ->
            with_stereo_mixdown_of_processes(h, procs)
      [] ctor = "with_stereo_global_tap_excluding_processes" ->
            with_stereo_global_tap_excluding_processes(h, procs)
      [] ctor = "with_mono_mixdown_of_processes" ->
            with_mono_mixdown_of_processes(h, procs)
      [] ctor = "with_mono_global_tap_excluding_processes" ->
            with_mono_global_tap_excluding_processes(h, procs)
      [] ctor = "with_processes_and_device" ->
            with_processes_and_device(h, procs, uid, stream)

\* a.<init>(args) on the allocation a
CallInit(init, a, procs, uid, stream) ==
    CASE init = "init_stereo_mixdown_of_processes" ->
            init_stereo_mixdown_of_processes(a, procs)
      [] init = "init_stereo_global_tap_but_exclude_processes" ->
            init_stereo_global_tap_but_exclude_processes(a, procs)
      [] init = "init_mono_mixdown_of_processes" ->
            init_mono_mixdown_of_processes(a, procs)
      [] init = "init_mono_global_tap_but_exclude_processes" ->
            init_mono_global_tap_but_exclude_processes(a, procs)
      [] init = "init_with_processes_and_device" ->
            init_with_processes_and_device(a, procs, uid, stream)
      [] init = "init_excluding_processes_and_device" ->
            init_excluding_processes_and_device(a, procs, uid, stream)

\* let r = ca::TapDesc::<ctor>(args)
TapWith(r, ctor, procs, uid, stream) ==
    /\ Running
    /\ Unbound(r)
    /\ HasFree(heap)
    /\ LET c == CallCtor(ctor, heap, procs, uid, stream)
       IN  /\ heap' = c.h
           /\ refs' = [refs EXCEPT ![r] = [st |-> "live", obj |-> c.out,
                                            origin |-> "create", rel |-> 0]]
           /\ last' = Last(ctor, r, c.out, 0, c.h[c.out].rc, "Ok", 0, -1, FALSE)
           /\ fcalls' = c.msgs
           /\ call' = [fn |-> ctor, args |-> ArgsOf(ctor, procs, uid, stream)]
    /\ UNCHANGED <<mon, pc, outer, list, thr, sub, stack, addr>>

\* let r = ca::TapDesc::alloc(): r holds an arc::A<TapDesc>
TapAlloc(r) ==
    /\ Running
    /\ Unbound(r)
    /\ HasFree(heap)
    /\ LET c == TapDesc_alloc(heap)
       IN  /\ heap' = c.h
           /\ refs' = [refs EXCEPT ![r] = [st |-> "alloc", obj |-> c.out,
                                            origin |-> "create", rel |-> 0]]
           /\ last' = Last("alloc", r, c.out, 0, c.h[c.out].rc, "Ok", 0, -1, FALSE)
           /\ fcalls' = c.msgs
           /\ call' = NoCall
    /\ UNCHANGED <<mon, pc, outer, list, thr, sub, stack, addr>>

\* let r = a.<init>(args): the arc::A<TapDesc> in a is moved into the call
TapInit(r, a, init, procs, uid, stream) ==
    /\ Running
    /\ Unbound(r)
    /\ refs[a].st = "alloc"
    /\ LET o == refs[a].obj
           c == CallInit(init, [h |-> heap, out |-> o, msgs |-> <<>>], procs, uid, stream)
       IN  /\ heap' = c.h
           /\ refs' = [refs EXCEPT ![a].st = "moved",
                                   ![r] = [st |-> "live", obj |-> c.out,
                                           origin |-> "create", rel |-> 0]]
           /\ last' = Last(init, r, c.out, heap[o].rc, c.h[c.out].rc, "Ok", 0, -1, FALSE)
           /\ fcalls' = c.msgs
           /\ call' = NoCall
    /\ UNCHANGED <<mon, pc, outer, list, thr, sub, stack, addr>>

\* let name = tap.name() / let uuid = tap.uuid(): a message to the
\* initialised object; one sent to an object that was never initialised
\* has no defined outcome
TapUse(s) ==
    /\ Running
    /\ LiveRef(s)
    /\ heap[refs[s].obj].tag = TapDesc_type_id
    /\ LET o == refs[s].obj
       IN  /\ heap' = IF IsLive(heap, o) /\ Len(heap[o].inits) = 1
                      THEN heap ELSE Corrupt(heap, o)
           /\ last' = Last("name", s, o, heap[o].rc, heap[o].rc, "-", 0, -1, FALSE)
           /\ fcalls' = <<Msg("name", o, <<>>)>>
           /\ call' = NoCall
    /\ UNCHANGED <<refs, mon, pc, outer, list, thr, sub, stack, addr>>

NextTap ==
    \/ \E r \in Refs, ctor \in Ctors, procs \in ProcLists, uid \in DeviceUids,
          stream \in Streams : TapWith(r, ctor, procs, uid, stream)
    \/ \E r \in Refs : TapAlloc(r)
    \/ \E r, a \in Refs, init \in Inits, procs \in ProcLists, uid \in DeviceUids,
          stream \in Streams : TapInit(r, a, init, procs, uid, stream)
    \/ \E s \in Refs : TapUse(s)
    \/ \E r \in Refs : Drop(r)
    \/ ScopeEnd
    \/ Finish

SpecTap == Init /\ [][NextTap]_vars

\* ================================================================ claims
DroppedRefsTo(o) == {r \in Refs : refs[r].st = "dropped" /\ refs[r].obj = o}
Done == pc \in {"done_ok", "done_err"}
\* Live containers that hold a count on o
Holders(o) == {a \in Objs : heap[a].state = "live" /\ o \in heap[a].elems}

\* C1: every owned reference whose lifetime has ended had exactly one
\* CFRelease issued for its object on its behalf, never zero and never two,
\* a reference that is still live or was moved out of had none, and after the
\* function has returned, normally or through an early error return, no
\* lifetime is left open.
C1_ExactlyOneRelease ==
    /\ ~UB(heap)
    /\ \A r \in Refs : refs[r].rel = IF refs[r].st = "dropped" THEN 1 ELSE 0
    /\ \A o \in Objs : heap[o].nrel = Cardinality(DroppedRefsTo(o))
    /\ Done => \A r \in Refs : refs[r].st \in {"empty", "err", "moved", "dropped"}

\* An early error return has ended the lifetime of a reference
C1_Witness ==
    /\ pc = "done_err"
    /\ \E r \in Refs : refs[r].st = "dropped" /\ heap[refs[r].obj].nrel = 1
    /\ \E r \in Refs : refs[r].st = "err"

\* C2: the retain step raises the count of the object by exactly one, the
\* release step lowers it by exactly one, and releasing the reference a
\* retain has just returned brings the count back to its value before the
\* retain.
C2_RetainReleaseNetZero ==
    /\ last.op = "retain" => last.post = last.pre + 1
    /\ last.op = "release" => last.post = last.pre - 1 /\ ~UB(heap)
    /\ last.op = "release" /\ last.base # -1 =>
           /\ last.post = last.base
           /\ heap[last.obj].rc = last.base

\* A retained reference has been released right after the retain
C2_Witness ==
    /\ last.op = "release"
    /\ last.base >= 1
    /\ refs[last.ref].origin = "retain"
    /\ heap[last.obj].rc = last.base

\* The counts this layer obtained on o (one from the creation call, one per
\* CFRetain) and has not released
Outstanding(o) ==
    IF heap[o].state = "free" THEN 0 ELSE 1 + heap[o].nret - heap[o].nrel

\* C3: for every object the number of live owned references equals the
\* number of counts this layer holds on it and has not released; the
\* object's count is never below that number, and an object with a live
\* owned reference is allocated with a positive count.
C3_LiveRefsMatchCounts ==
    \A o \in Objs :
        /\ Cardinality(LiveRefsTo(o)) = Outstanding(o)
        /\ heap[o].rc >= Cardinality(LiveRefsTo(o))
        /\ LiveRefsTo(o) # {} => heap[o].state = "live" /\ heap[o].rc > 0

\* A live owned reference to an object that a container holds as well
C3_Witness ==
    \E o \in Objs :
        /\ Cardinality(LiveRefsTo(o)) = 1
        /\ Outstanding(o) = 1
        /\ heap[o].rc = 2
        /\ Holders(o) # {}

\* C4: try_as_number is populated only for a handle whose type id is the
\* number type id, and try_as_string only for a handle whose type id is the
\* string type id; for every other type id they are None.
C4_NarrowingSound ==
    /\ \A r \in Refs : LiveRef(r) =>
           LET o == refs[r].obj
           IN  /\ try_as_number(heap, o) # None => get_type_id(heap, o) = Number_type_id
               /\ try_as_string(heap, o) # None => get_type_id(heap, o) = String_type_id
    /\ last.op = "try_as_number" /\ last.res = "Some" =>
           heap[last.obj].tag = Number_type_id
    /\ last.op = "try_as_string" /\ last.res = "Some" =>
           heap[last.obj].tag = String_type_id

\* try_as_number has refused a handle that is not a number
C4_Witness ==
    /\ last.op = "try_as_number"
    /\ last.res = "None"
    /\ heap[last.obj].tag \in {String_type_id, SampleBuf_type_id, Array_type_id}
    /\ \E r \in Refs : LiveRef(r) /\ heap[refs[r].obj].tag = Number_type_id

\* C5: a string handle narrows to absent against the number subtype and to
\* a view at the same address against the string subtype, a number handle
\* the other way round, and no handle narrows to both.
C5_NarrowingScenario ==
    /\ \A r \in Refs : LiveRef(r) =>
           LET o == refs[r].obj
           IN  /\ heap[o].tag = String_type_id =>
                      try_as_number(heap, o) = None /\ try_as_string(heap, o) = Some(o)
               /\ heap[o].tag = Number_type_id =>
                      try_as_string(heap, o) = None /\ try_as_number(heap, o) = Some(o)
               /\ try_as_number(heap, o) = None \/ try_as_string(heap, o) = None
    /\ last.op = "try_as_string" /\ heap[last.obj].tag = String_type_id =>
           last.res = "Some" /\ last.val = last.obj
    /\ last.op = "try_as_number" /\ heap[last.obj].tag = String_type_id =>
           last.res = "None"
    /\ last.op = "try_as_number" /\ heap[last.obj].tag = Number_type_id =>
           last.res = "Some" /\ last.val = last.obj
    /\ last.op = "try_as_string" /\ heap[last.obj].tag = Number_type_id =>
           last.res = "None"

\* A string handle has been narrowed to a string view of itself while a
\* number is live
C5_Witness ==
    /\ last.op = "try_as_string"
    /\ heap[last.obj].tag = String_type_id
    /\ last.res = "Some"
    /\ last.val = last.obj
    /\ \E r \in Refs : LiveRef(r) /\ heap[refs[r].obj].tag = Number_type_id

CreateOps == {"new", "with_image_buf"}

C6_Inv ==
    /\ last.op \in CreateOps /\ last.val # noErr =>
           /\ last.res = "Err"
           /\ refs[last.ref].st = "err"
           /\ last.obj = 0
    /\ last.op \in CreateOps /\ last.res = "Ok" =>
           /\ last.val = noErr
           /\ refs[last.ref].st = "live"
           /\ refs[last.ref].obj = last.obj
           /\ heap[last.obj].state = "live"
    /\ \A r \in Refs : refs[r].st = "err" => refs[r].rel = 0 /\ refs[r].obj = 0

C6_Step ==
    last'.op \in CreateOps /\ last'.val # noErr =>
        /\ heap' = heap
        /\ \A q \in Refs : refs'[q].st = "live" <=> refs[q].st = "live"

\* C6: a creation call whose foreign status is nonzero returns Err, binds
\* no owned reference and changes no object (no count is taken, none is
\* released, then or later, for the variable that received the Err); it
\* returns Ok only when the status is zero, and then the variable owns a live
\* object.
C6_CreationFailure == [](C6_Inv) /\ [][C6_Step]_vars

\* A creation has failed while another object was live, and the function
\* has returned through the error path
C6_Witness ==
    /\ pc = "done_err"
    /\ \E r \in Refs : refs[r].st = "err" /\ refs[r].rel = 0
    /\ \E r \in Refs : refs[r].st = "dropped"

\* r1 holds the count of the creation call and r2 one of a retain, both on
\* o, and nothing else holds a count on o
CreatedAndRetained(o, r1, r2) ==
    /\ r1 # r2
    /\ refs[r1].obj = o /\ refs[r1].origin = "create"
    /\ refs[r2].obj = o /\ refs[r2].origin = "retain"
    /\ refs[r1].st \in {"live", "dropped"}
    /\ refs[r2].st \in {"live", "dropped"}
    /\ \A q \in Refs \ {r1, r2} :
           refs[q].obj = o => refs[q].st \notin {"live", "dropped"}
    /\ \A a \in Objs : o \notin heap[a].elems

\* C7: with one owned reference from the creation call and one from a
\* retain on the same object, each release lowers the count by one whatever
\* the order: the count is two minus the number of the two that have been
\* released, the object is deallocated exactly when both have been, and no
\* release reaches a deallocated object.
C7_TwoOwnersReleaseOnce ==
    /\ ~UB(heap)
    /\ \A o \in Objs, r1, r2 \in Refs :
           CreatedAndRetained(o, r1, r2) =>
               LET k == Cardinality({r \in {r1, r2} : refs[r].st = "dropped"})
               IN  /\ heap[o].rc = 2 - k
                   /\ heap[o].nrel = k
                   /\ heap[o].state = (IF k = 2 THEN "dead" ELSE "live")

\* Both have been released, the retained one first
C7_Witness ==
    \E o \in Objs, r1, r2 \in Refs :
        /\ CreatedAndRetained(o, r1, r2)
        /\ refs[r1].st = "dropped" /\ refs[r2].st = "dropped"
        /\ last.op = "release" /\ last.ref = r1
        /\ heap[o].state = "dead"

\* The program called data_is_ready and it answered b
Answered(b) == last.op = "data_is_ready" /\ last.res = (IF b THEN "true" ELSE "false")

\* C8: a sample buffer created with data_ready = false answers false to
\* data_is_ready as long as no make-ready operation was invoked on it, and
\* answers true once set_data_ready was called or make_data_ready returned Ok.
C8_ReadyAfterMakeReady ==
    /\ last.op = "data_is_ready" =>
           LET o == last.obj
           IN  /\ ~mon[o].flag /\ ~mon[o].made => Answered(FALSE)
               /\ mon[o].made => Answered(TRUE)
    /\ last.op = "set_data_ready" => data_is_ready(heap, last.obj)
    /\ last.op = "make_data_ready" /\ last.res = "Ok" => data_is_ready(heap, last.obj)

\* A buffer created not ready answers true after it was made ready
C8_Witness ==
    /\ Answered(TRUE)
    /\ ~mon[last.obj].flag
    /\ mon[last.obj].made

\* C9: the readiness query that directly follows a successful creation
\* answers the data_ready flag passed to the creation call, and so does every
\* query made before a make-ready operation.
C9_ReadyEqualsFlag ==
    /\ last.op = "data_is_ready" /\ last.fresh => Answered(mon[last.obj].flag)
    /\ last.op = "data_is_ready" /\ ~mon[last.obj].made => Answered(mon[last.obj].flag)

\* A buffer created with data_ready = true answers true right after creation
C9_Witness ==
    /\ last.op = "data_is_ready"
    /\ last.fresh
    /\ mon[last.obj].flag
    /\ Answered(TRUE)

C10_Inv ==
    /\ last.op = "move" =>
           /\ last.post = last.pre
           /\ refs[last.val].st = "moved"
           /\ refs[last.ref].st = "live" /\ refs[last.ref].obj = last.obj
    /\ \A r \in Refs : refs[r].st = "moved" => refs[r].rel = 0
    /\ \A o \in Objs : heap[o].nrel = Cardinality(DroppedRefsTo(o))

C10_Step ==
    /\ last'.op = "move" => heap' = heap
    /\ \A o \in Objs :
           heap[o].state = "live" /\ Cardinality(LiveRefsTo(o)') > Cardinality(LiveRefsTo(o))
               => last'.op = "retain" /\ heap'[o].nret = heap[o].nret + 1

\* C10: a move issues no CFRetain and no CFRelease and leaves every count
\* unchanged; the source is moved out of and is never released, the
\* destination owns the object and the one release is issued when the
\* destination is dropped; the number of live owned references to an
\* existing object grows only by a retain.
C10_MoveKeepsCount == [](C10_Inv) /\ [][C10_Step]_vars

\* The destination of a move has been dropped: one release, none for the source
C10_Witness ==
    \E s, r \in Refs :
        /\ refs[s].st = "moved" /\ refs[s].rel = 0
        /\ refs[r].st = "dropped" /\ refs[r].rel = 1 /\ refs[r].obj = refs[s].obj
        /\ heap[refs[r].obj].nrel = 1
        /\ heap[refs[r].obj].state = "dead"
        /\ last.op = "release" /\ last.ref = r

\* C11: an object placed in a container stays alive while an owned reference
\* to the container lives, whatever happened to the caller's own references
\* to the object: every element of a container that a live owned reference
\* (a local of the block, or the caller's variable after the block) points to
\* is live with a count of at least one, the container itself is live, and
\* no use of the container reaches a deallocated container or element.
OwnedContainers ==
    {refs[r].obj : r \in {q \in Refs : LiveRef(q)}}
        \cup (IF outer.st = "live" THEN {outer.obj} ELSE {})
FallibleOps ==
    {"new", "set_data_buf", "invalidate", "make_data_ready", "timing_info",
     "copy_pcm_data_into_audio_buf_list"}
C12_StatusToResult ==
    last.op \in FallibleOps =>
        /\ Len(fcalls) = 1
        /\ last.res \in {"Ok", "Err"}
        /\ last.res = "Ok" <=> fcalls[1].st = 0
        /\ last.res = "Err" => last.val = fcalls[1].st
C12_Witness ==
    /\ last.op = "set_data_buf"
    /\ last.res = "Err"
    /\ fcalls[1].st = ALREADY_HAS_DATA_BUFFER
    /\ last.val = ALREADY_HAS_DATA_BUFFER

\* C13: the layer never retries.  Among the status-returning foreign calls of
\* one operation only the last one can have returned a nonzero status, no
\* call is made twice, and the operation then returns Err with that status.
\* When the size query of audio_buf_list_n fails, it is the only foreign call
\* of the operation, and the caller's list and the foreign objects are left
\* as they were.
C13_Inv ==
    /\ \A i \in 1..Len(fcalls) : i < Len(fcalls) => fcalls[i].st = 0
    /\ \A i, j \in 1..Len(fcalls) : i # j => fcalls[i].fn # fcalls[j].fn
    /\ (Len(fcalls) > 0 /\ fcalls[Len(fcalls)].st # 0) =>
           last.res = "Err" /\ last.val = fcalls[Len(fcalls)].st
C13_Step ==
    (last'.op = "audio_buf_list_n" /\ fcalls'[1].st # 0) =>
        Len(fcalls') = 1 /\ list' = list /\ heap' = heap
C13_NoRetry == [](C13_Inv) /\ [][C13_Step]_vars
C13_Witness ==
    /\ last.op = "audio_buf_list_n"
    /\ heap[last.obj].valid /\ IsAudio(heap, last.obj)
    /\ Len(fcalls) = 1
    /\ fcalls[1].st = ARRAY_TOO_SMALL
    /\ last.res = "Err" /\ last.val = ARRAY_TOO_SMALL
    /\ list = 2

\* C14: when several threads hold owned references of their own to one object
\* and retain and release in any interleaving, no increment or decrement is
\* lost: the count of the object equals the number of owned references
\* outstanding (those of the main thread, those the threads hold, and those
\* in flight between a foreign call and the thread's variable), the object is
\* deallocated exactly when the last of them was released, never earlier and
\* never twice, and no thread holds a reference to a deallocated object.
RECURSIVE ThreadRefs(_, _)
ThreadRefs(o, n) ==
    IF n = 0 THEN 0
    ELSE ThreadRefs(o, n - 1)
         + (IF thr[n].obj = o
            THEN thr[n].held + (IF thr[n].at = "idle" THEN 0 ELSE 1)
            ELSE 0)
OutstandingRefs(o) == Cardinality(LiveRefsTo(o)) + ThreadRefs(o, NThreads)
C14_ConcurrentCounts ==
    /\ ~UB(heap)
    /\ \A o \in Objs : heap[o].state # "free" =>
          /\ heap[o].rc = OutstandingRefs(o)
          /\ heap[o].state = "dead" <=> OutstandingRefs(o) = 0
          /\ heap[o].nret - heap[o].nrel = OutstandingRefs(o) - 1
C14_Witness ==
    \E o \in Objs :
        /\ heap[o].state = "dead"
        /\ \A t \in Threads : thr[t].obj = o
        /\ heap[o].nret >= NThreads + 1
        /\ heap[o].nrel = heap[o].nret + 1

\* C15: an accessor of something a sample buffer may lack (image_buf,
\* data_buf, format_desc, attaches) returns None or Some and nothing else, is
\* not undefined behaviour, and returns Some, with the address the foreign
\* accessor returned, exactly when that address is not null.
ForeignAccessor(op, o) ==
    CASE op = "image_buf" -> CMSampleBufferGetImageBuffer(heap, o)
      [] op = "data_buf" -> CMSampleBufferGetDataBuffer(heap, o)
      [] op = "format_desc" -> CMSampleBufferGetFormatDescription(heap, o)
      [] op = "attaches" -> CMSampleBufferGetSampleAttachmentsArray(heap, o, FALSE).out
OptionalAccessors == {"image_buf", "data_buf", "format_desc", "attaches"}
C15_AbsenceIsNone ==
    /\ ~UB(heap)
    /\ last.op \in OptionalAccessors =>
          /\ last.res \in {"None", "Some"}
          /\ last.res = "Some" <=> ForeignAccessor(last.op, last.obj) # 0
          /\ last.res = "Some" => last.val = ForeignAccessor(last.op, last.obj)
          /\ last.res = "None" => last.val = 0
C15_Witness ==
    /\ last.op = "image_buf"
    /\ last.res = "None"
    /\ heap[last.obj].state = "live"
    /\ CMSampleBufferGetImageBuffer(heap, last.obj) = 0

\* C16: a borrowing query (get_type_id, as_type_ptr, try_as_number,
\* try_as_string, data_buf, image_buf, format_desc) changes no reference
\* count, allocates and deallocates nothing, and leaves the local variables,
\* hence the set of live owned references, as they were; get_type_id returns
\* the tag of the object, which never changes while the object is live, so
\* two calls on the same live handle return the same tag.
BorrowOps ==
    {"get_type_id", "as_type_ptr", "try_as_number", "try_as_string", "data_buf",
     "image_buf", "format_desc"}
C16_Inv ==
    last.op = "get_type_id" => last.res = heap[last.obj].tag
C16_Step ==
    /\ last'.op \in BorrowOps =>
          /\ \A o \in Objs : /\ heap'[o].rc = heap[o].rc
                             /\ heap'[o].state = heap[o].state
                             /\ heap'[o].nret = heap[o].nret
                             /\ heap'[o].nrel = heap[o].nrel
          /\ refs' = refs
    /\ \A o \in Objs : (IsLive(heap, o) /\ IsLive(heap', o)) => heap'[o].tag = heap[o].tag
C16_BorrowsLeaveCounts == [](C16_Inv) /\ [][C16_Step]_vars
C16_Witness ==
    /\ last.op = "get_type_id"
    /\ last.res = SampleBuf_type_id
    /\ heap[last.obj].rc = 2
    /\ Cardinality(LiveRefsTo(last.obj)) = 2
    /\ heap[last.obj].dbuf

\* C17: audio_stream_packet_descs on a valid sample buffer that is not audio
\* (one created from an image buffer) returns Err with
\* err::INVALID_MEDIA_TYPE_FOR_OPERATION; a call right after the same call on
\* the same variable returns what that call returned; and the call changes
\* nothing of the foreign objects or the local variables.
C17_Inv ==
    last.op = "audio_stream_packet_descs" =>
        /\ (heap[last.obj].valid /\ heap[last.obj].image) =>
               last.res = "Err" /\ last.val = INVALID_MEDIA_TYPE_FOR_OPERATION
        /\ last.base # -1 =>
               (IF last.res = "Err" THEN last.val ELSE 0) = last.base
C17_Step ==
    last'.op = "audio_stream_packet_descs" => heap' = heap /\ refs' = refs
C18_PacketDescsReturned ==
    (/\ last.op = "audio_stream_packet_descs"
     /\ heap[last.obj].valid
     /\ IsAudio(heap, last.obj)) =>
        /\ heap[last.obj].media = "audio_vbr" =>
               last.res = "Ok(Some)" /\ last.val = heap[last.obj].npkt
        /\ last.res = "Ok(None)" => heap[last.obj].media = "audio_cbr"

\* C19: is_key_frame returns false only when the sample attachments array
\* exists, is not empty and its first dictionary has the NotSync key with a
\* value other than kCFBooleanFalse; in every other case it returns true.
\* Inserting an attachment under another key (DoNotDisplay) into a buffer
\* that is a key frame leaves it a key frame.
NotSyncSet(o) ==
    /\ heap[o].att # None
    /\ Len(heap[o].att[1]) > 0
    /\ \E p \in heap[o].att[1][1] : p[1] = not_sync /\ p[2] # value_false
C19_Inv ==
    last.op = "is_key_frame" => (last.res = "false" <=> NotSyncSet(last.obj))
C19_Step ==
    (/\ last'.op = "attach_insert"
     /\ last'.res = do_not_display
     /\ is_key_frame(heap, last'.obj)) => is_key_frame(heap', last'.obj)
C19_KeyFrame == [](C19_Inv) /\ [][C19_Step]_vars
C19_Witness ==
    /\ last.op = "is_key_frame"
    /\ last.res = "true"
    /\ heap[last.obj].att # None
    /\ Len(heap[last.obj].att[1]) > 0
    /\ <<do_not_display, tagged_i8_1>> \in heap[last.obj].att[1][1]
    /\ <<not_sync, value_false>> \in heap[last.obj].att[1][1]

\* C20: once invalidate() has returned Ok for a sample buffer, the buffer is
\* invalid for the rest of its life: from then on every is_valid() on it
\* answers false, every fallible accessor applied to it returns Err with
\* err::INVALIDATED, and the foreign state of the buffer never becomes valid
\* again.
FallibleAccessors ==
    {"set_data_buf", "make_data_ready", "timing_info",
     "copy_pcm_data_into_audio_buf_list"}
InvalidateOk(o) == last.op = "invalidate" /\ last.res = "Ok" /\ last.obj = o
StaysInvalid(o) ==
    /\ heap[o].state = "live" => ~heap[o].valid
    /\ (last.op = "is_valid" /\ last.obj = o) => last.res = "false"
    /\ (last.op \in FallibleAccessors /\ last.obj = o) =>
           last.res = "Err" /\ last.val = INVALIDATED
C20_InvalidForever ==
    \A o \in Objs : [](InvalidateOk(o) => [](StaysInvalid(o)))
C20_Witness ==
    /\ last.op = "timing_info"
    /\ last.res = "Err"
    /\ last.val = INVALIDATED
    /\ ~heap[last.obj].valid
    /\ heap[last.obj].state = "live"


\* C21: the result of audio_buf_list, audio_buf_list_in or audio_buf_list_n
\* owns exactly one count on its block buffer: while the result is live the
\* block buffer is live with that one count, dropping the result releases it
\* exactly once, and a call that fails leaves every foreign object as it was.
BufListOps == {"audio_buf_list", "audio_buf_list_in", "audio_buf_list_n"}
BlockBufs == {b \in Objs : heap[b].tag = BlockBuf_type_id}
C21_Inv ==
    \A b \in BlockBufs :
        IF LiveRefsTo(b) # {}
        THEN /\ Cardinality(LiveRefsTo(b)) = 1
             /\ IsLive(heap, b)
             /\ heap[b].rc = 1
             /\ heap[b].nrel = 0
        ELSE /\ Cardinality(DroppedRefsTo(b)) = 1
             /\ heap[b].state = "dead"
             /\ heap[b].rc = 0
             /\ heap[b].nrel = 1
C21_Step ==
    last'.op \in BufListOps =>
        IF last'.res = "Err"
        THEN heap' = heap /\ refs'[last'.ref].st = "err"
        ELSE \E b \in Objs :
                /\ heap[b].state = "free"
                /\ heap'[b].tag = BlockBuf_type_id
                /\ refs'[last'.ref].obj = b
                /\ \A a \in Addrs \ {b} : heap'[a] = heap[a]
C21_BufListOwnsBlock == [](C21_Inv) /\ [][C21_Step]_vars
C21_Witness ==
    /\ last.op = "release"
    /\ refs[last.ref].st = "dropped"
    /\ last.obj \in BlockBufs
    /\ heap[last.obj].nrel = 1
    /\ heap[last.obj].state = "dead"


\* C22: on a subtype declared with define_cf_type! retained() makes one
\* CFRetain call on the object and yields an owned reference to it, release
\* makes one CFRelease call on it, the base view is the same object, and the
\* program makes the same foreign retain and release calls, in the same order
\* and with the same effect, as the program that uses the base cf::Type.
C22_Inv ==
    sub.on =>
        /\ sub.calls = sub.bcalls
        /\ heap = sub.bheap
        /\ last.op = "sub_retained" =>
              /\ refs[last.ref].st = "live"
              /\ refs[last.ref].obj = last.obj
              /\ heap[last.obj].tag = SampleBuf_type_id
              /\ last.post = last.pre + 1
        /\ last.op = "deref" =>
              /\ last.val = last.obj
              /\ last.res = SampleBuf_type_id
C22_Step ==
    /\ last'.op = "sub_retained" =>
          sub'.calls = Append(sub.calls, <<"CFRetain", last'.obj>>)
    /\ last'.op = "sub_release" =>
          sub'.calls = Append(sub.calls, <<"CFRelease", last'.obj>>)
    /\ last'.op = "deref" => sub'.calls = sub.calls /\ heap' = heap
C22_SubtypeAsBase == [](C22_Inv) /\ [][C22_Step]_vars
C22_Witness ==
    /\ sub.on
    /\ last.op = "sub_release"
    /\ Len(sub.calls) >= 2
    /\ sub.calls[1][1] = "CFRetain"
    /\ sub.calls[Len(sub.calls)][1] = "CFRelease"


\* C23: is_tagged_ptr answers true exactly when bit 63 of the handle's
\* address is 1, answers false for every address below 2^63, and changes
\* neither the address nor any reference count.
Pow2_63 == {63}
\* a < b for two usize values
Below(a, b) == \E p \in b \ a : \A q \in (p + 1)..(UsizeBits - 1) : q \in a <=> q \in b
C23_Inv ==
    last.op = "is_tagged_ptr" =>
        /\ last.res = "true" <=> 63 \in addr[last.obj]
        /\ Below(addr[last.obj], Pow2_63) => last.res = "false"
C23_Step ==
    last'.op = "is_tagged_ptr" =>
        /\ addr' = addr
        /\ refs' = refs
        /\ heap' = heap
C23_TaggedIsBit63 == [](C23_Inv) /\ [][C23_Step]_vars
C23_Witness ==
    /\ last.op = "is_tagged_ptr"
    /\ last.res = "true"
    /\ 62 \notin addr[last.obj]
    /\ \E o \in Objs : 62 \in addr[o] /\ Below(addr[o], Pow2_63)


\* C24: every named constant of cm::sample_buffer::err is a nonzero status
\* and no two of them are equal, so the status of a foreign call is the code
\* of at most one name, the status of a call that succeeded is the code of
\* none, and an error that matches one name matches no other.
NamesOf(st) == {n \in ErrNames : err_code(n) = st}
C24_Inv ==
    /\ \A n \in ErrNames : err_code(n) # noErr
    /\ \A m, n \in ErrNames : m # n => err_code(m) # err_code(n)
    /\ \A i \in DOMAIN fcalls :
          /\ Cardinality(NamesOf(fcalls[i].st)) <= 1
          /\ Status_result(fcalls[i].st).ok => NamesOf(fcalls[i].st) = {}
C24_Step ==
    (last'.op = "match" /\ last'.res # "_") =>
        /\ last.res = "Err"
        /\ NamesOf(last.val) = {last'.res}
C24_ErrCodesDistinct == [](C24_Inv) /\ [][C24_Step]_vars
C24_Witness ==
    /\ last.op = "match"
    /\ last.res = "INVALID_MEDIA_TYPE_FOR_OPERATION"
    /\ \E r \in Refs : refs[r].st = "err"


\* C25: is_key_frame leaves the sample attachments of the buffer, and every
\* other foreign object, as they were: it does not create the array when
\* there is none; and whenever it answers false, the first dictionary of the
\* array holds the NotSync key, so that contains_not_sync answers true.
HasNotSyncKey(o) ==
    /\ heap[o].att # None
    /\ Len(heap[o].att[1]) > 0
    /\ \E p \in heap[o].att[1][1] : p[1] = not_sync
C25_Inv ==
    /\ (last.op = "is_key_frame" /\ last.res = "false") =>
          /\ HasNotSyncKey(last.obj)
          /\ contains_not_sync(heap, last.obj) = [h |-> heap, val |-> TRUE]
    /\ (last.op = "contains_not_sync" /\ last.base = 0) => last.res = "true"
C25_Step ==
    last'.op = "is_key_frame" =>
        /\ heap'[last'.obj].att = heap[last'.obj].att
        /\ heap' = heap
C25_KeyFrameReadsOnly == [](C25_Inv) /\ [][C25_Step]_vars
C25_Witness ==
    /\ last.op = "contains_not_sync"
    /\ last.base = 0
    /\ last.res = "true"
    /\ <<not_sync, value_true>> \in heap[last.obj].att[1][1]


\* C26: retained() called through arc::Retain on a define_cf_type! subtype
\* returns: the trait's method calls the type's own retained(), never itself,
\* so no function is on the stack twice, the call makes exactly one CFRetain
\* on the object, and every call that was begun comes to its end.
C26_Inv ==
    /\ \A i, j \in DOMAIN stack : stack[i].fn = stack[j].fn => i = j
    /\ Len(stack) <= 3
    /\ last.op = "retained_by_trait" =>
          /\ last.post = last.pre + 1
          /\ refs[last.ref].st = "live"
          /\ refs[last.ref].obj = last.obj
C26_Step ==
    /\ last'.op \in {"call_retained", "enter"} => heap' = heap
    /\ last'.op \in {"return_to", "retained_by_trait"} =>
          ForeignCalls(heap, heap') \in {<<>>, <<<<"CFRetain", last'.obj>>>>}
C26_TraitRetainedReturns ==
    /\ [](C26_Inv)
    /\ [][C26_Step]_vars
    /\ (stack # <<>>) ~> (stack = <<>>)
C26_Witness ==
    /\ last.op = "retained_by_trait"
    /\ stack = <<>>
    /\ heap[last.obj].nret = 1
    /\ heap[last.obj].rc = 2


\* C27: every ca::TapDesc constructor sends one alloc and then exactly one
\* init, of the constructor's kind, to the object that alloc returned,
\* with the constructor's arguments as they were given; the result is the one
\* owned reference to that object; an allocation is used up by its init, so
\* no object receives two inits and none is used before its init.
CtorKind(ctor) ==
    CASE ctor = "with_stereo_mixdown_of_processes" -> <<"stereo", "include">>
      [] ctor = "with_stereo_global_tap_excluding_processes" -> <<"stereo", "exclude">>
      [] ctor = "with_mono_mixdown_of_processes" -> <<"mono", "include">>
      [] ctor = "with_mono_global_tap_excluding_processes" -> <<"mono", "exclude">>
      [] ctor = "with_processes_and_device" -> <<"device", "include">>
SelKind(sel) ==
    CASE sel = "initStereoMixdownOfProcesses:" -> <<"stereo", "include">>
      [] sel = "initStereoGlobalTapButExcludeProcesses:" -> <<"stereo", "exclude">>
      [] sel = "initMonoMixdownOfProcesses:" -> <<"mono", "include">>
      [] sel = "initMonoGlobalTapButExcludeProcesses:" -> <<"mono", "exclude">>
      [] sel = "initWithProcesses:andDeviceUID:withStream:" -> <<"device", "include">>
      [] sel = "initExcludingProcesses:andDeviceUID:withStream:" -> <<"device", "exclude">>
      [] OTHER -> <<"none", "none">>
TapDescs == {o \in Objs : heap[o].tag = TapDesc_type_id}
C27_Inv ==
    /\ last.op \in Ctors =>
          /\ call.fn = last.op
          /\ Len(fcalls) = 2
          /\ fcalls[1] = Msg("alloc", last.obj, <<>>)
          /\ fcalls[2].to = last.obj
          /\ fcalls[2].args = call.args
          /\ SelKind(fcalls[2].fn) = CtorKind(last.op)
          /\ heap[last.obj].inits = <<[sel |-> fcalls[2].fn, args |-> call.args]>>
          /\ heap[last.obj].rc = 1
          /\ LiveRefsTo(last.obj) = {last.ref}
    /\ \A o \in TapDescs : Len(heap[o].inits) <= 1
    /\ \A r \in Refs :
          (refs[r].st = "live" /\ refs[r].obj \in TapDescs) =>
              Len(heap[refs[r].obj].inits) = 1
    /\ \A r \in Refs : refs[r].st = "alloc" => heap[refs[r].obj].inits = <<>>
    /\ last.op = "name" => ~UB(heap)
C27_Step ==
    /\ last'.op \in Ctors => heap[last'.obj].state = "free"
    /\ last'.op \in Inits =>
          /\ \E a \in Refs : /\ refs[a].st = "alloc"
                              /\ refs[a].obj = last'.obj
                              /\ refs'[a].st = "moved"
          /\ Len(heap'[last'.obj].inits) = Len(heap[last'.obj].inits) + 1
C27_AllocThenOneInit == [](C27_Inv) /\ [][C27_Step]_vars
C27_Witness ==
    /\ last.op = "with_processes_and_device"
    /\ heap[last.obj].inits[1].args = <<1, 2, 1>>
    /\ \E r \in Refs : refs[r].st = "dropped" /\ refs[r].obj \in TapDescs
====
